---- MODULE Spec2Model ----
(***************************************************************************)
(* A model of trac's MySQL backend (trac/db/mysql_backend.py): the DDL     *)
(* compiler (to_sql, _collist, alter_column_types), the SQL fragment       *)
(* helpers (quote, like_escape, prefix_match_value), the connection        *)
(* wrapper's constructor, close and rollback, and the connector's          *)
(* init_db, destroy_db, db_exists, environment_needs_upgrade and backup.   *)
(*                                                                         *)
(* Python strings that the code takes apart or builds character by         *)
(* character (identifiers, LIKE patterns) are sequences of one-character   *)
(* strings; SQL keywords and type names that the code only copies are      *)
(* plain strings.  A statement is a record of the parts the code           *)
(* interpolates into its format string.                                    *)
(***************************************************************************)
EXTENDS Integers, Sequences, FiniteSets, TLC

VARIABLES
    args,       \* the argument the helper of the behaviour is called with
    rets,       \* the calls made so far: <<[fn, arg, val], ...>>
    schema,     \* the Schema Model: a sequence of Table objects (mutable)
    declared,   \* the Schema Model as it was declared, before any compilation
    max_bytes,  \* bytes per character of the connection's charset
    out,        \* the to_sql calls made so far: <<[t, stmts], ...>>
    session,    \* the driver session behind MySQLConnection.cnx
    is_closed,  \* MySQLConnection._is_closed
    lastOp,     \* the wrapper method that ran last, or "none"
    raised,     \* the exception that method let escape, or "none"
    opCalls,    \* the driver calls that method made, in order
    nClose,     \* number of close() calls made on the wrapper
    nRollback,  \* number of rollback() calls made on the wrapper
    opSession,  \* the state of the session when that method was called
    driverCloses, \* the results of the cnx.close() calls made, in order
    db_prop,    \* the parsed connection URI: path, user, password, host,
                \* port and the params mapping, in iteration order
    server,     \* the MySQL server: its variables and its tables
    environ,    \* os.environ of the running process
    required,   \* MySQLConnector.required
    sessions,   \* the sessions the driver has opened: <<[charset, open], ...>>
    conn,       \* the MySQLConnection the last operation constructed, if any
    events,     \* what the last connector operation did, in order
    opResult,   \* how it ended: [op, raised, value]
    nOps,       \* number of connector operations performed
    config      \* trac.ini: the options the operations read and set

pureVars == <<args, rets>>
ddlVars  == <<schema, declared, max_bytes, out>>
connVars == <<session, is_closed, lastOp, raised, opCalls, nClose, nRollback,
              opSession, driverCloses>>
connectorVars == <<db_prop, server, environ, required, sessions, conn, events,
                   opResult, nOps, config>>
vars     == <<args, rets, schema, declared, max_bytes, out, session, is_closed,
              lastOp, raised, opCalls, nClose, nRollback, opSession,
              driverCloses, db_prop, server, environ, required, sessions,
              conn, events, opResult, nOps, config>>

\* ------------------------------------------------------------------ bounds
MaxLen      == 3   \* longest identifier / LIKE text drawn
MaxCalls    == 2   \* helper calls per behaviour
MaxKeyCols  == 5   \* most columns of a table handed to _collist
MaxAlter    == 2   \* most entries of the dict handed to alter_column_types
MaxCols     == 2   \* most columns of a compiled table
MaxIdx      == 2   \* most indices of a compiled table
MaxCompiles == 3   \* to_sql calls per behaviour
MaxCloses   == 3   \* close() calls per behaviour
MaxRollbacks == 3  \* rollback() calls per behaviour
MaxParams   == 2   \* most parameters of a connection URI
MaxOps      == 2   \* connector operations per behaviour
MaxEnums    == 2   \* enum values of one ticket field

\* ------------------------------------------------------------- Python bits
\* An optional integer (Column.key_size, an emitted prefix length) is <<>>
\* for None and <<n>> for the integer n.
None == <<>>

Min(a, b) == IF a < b THEN a ELSE b

RECURSIVE Join(_, _)
\* sep.join(parts)
Join(sep, parts) ==
    IF parts = <<>> THEN <<>>
    ELSE IF Len(parts) = 1 THEN Head(parts)
    ELSE Head(parts) \o sep \o Join(sep, Tail(parts))

RECURSIVE Count(_, _)
\* s.count(c)
Count(s, c) ==
    IF s = <<>> THEN 0
    ELSE (IF Head(s) = c THEN 1 ELSE 0) + Count(Tail(s), c)

\* The backtick character (written out: the lexer accepts no backtick in a
\* string literal).
BACKTICK == "BACKTICK"

\* The characters the model draws strings from, in code point order.
ASCII == <<"%", "/", "_", BACKTICK, "a", "b", "c", "d", "i", "t", "u", "x">>

\* ord(c), up to an order-preserving renumbering
Ord(c) == CHOOSE i \in 1..Len(ASCII) : ASCII[i] = c

RECURSIVE StrLess(_, _)
\* s < t for two Python strings
StrLess(s, t) ==
    IF t = <<>> THEN FALSE
    ELSE IF s = <<>> THEN TRUE
    ELSE IF Head(s) # Head(t) THEN Ord(Head(s)) < Ord(Head(t))
    ELSE StrLess(Tail(s), Tail(t))

RECURSIVE Sorted(_)
\* sorted(S) for a set S of distinct strings
Sorted(S) ==
    IF S = {} THEN <<>>
    ELSE LET m == CHOOSE x \in S : \A y \in S \ {x} : StrLess(x, y)
         IN  <<m>> \o Sorted(S \ {m})

\* The strings of length at most n over the characters cs.
StringsUpTo(cs, n) == UNION {[1..k -> cs] : k \in 0..n}

\* ------------------------------------------------------------------ _quote
RECURSIVE Replace(_, _, _)
\* s.replace(c, by) for a one-character c
Replace(s, c, by) ==
    IF s = <<>> THEN <<>>
    ELSE (IF Head(s) = c THEN by ELSE <<Head(s)>>) \o Replace(Tail(s), c, by)

\* Mutant of _quote: embedded backticks are not doubled
_quote_NoDoubling(identifier) == <<BACKTICK>> \o identifier \o <<BACKTICK>>

\* def _quote(identifier): return "`%s`" % identifier.replace('`', '``')
_quote(identifier) ==
    <<BACKTICK>> \o Replace(identifier, BACKTICK, <<BACKTICK, BACKTICK>>)
                 \o <<BACKTICK>>

\* MySQLConnection.quote
quote(identifier) == _quote(identifier)

\* ------------------------------------------------------------- LIKE helpers
\* _like_escape_re = re.compile(r'([/_%])')
\* Mutant of _like_escape_re: the escape character itself is not matched
_like_escape_re_NoSlash == {"_", "%"}

_like_escape_re == {"/", "_", "%"}

RECURSIVE ReSubPrefix(_, _, _)
\* re.sub over a one-character class: every match m becomes prefix + m
ReSubPrefix(class, prefix, text) ==
    IF text = <<>> THEN <<>>
    ELSE (IF Head(text) \in class THEN prefix \o <<Head(text)>>
                                  ELSE <<Head(text)>>)
         \o ReSubPrefix(class, prefix, Tail(text))

\* MySQLConnection.like: "LIKE %%s COLLATE %s_general_ci ESCAPE '/'" % charset
like(charset) ==
    [op |-> "LIKE", collate |-> charset, suffix |-> "_general_ci", escape |-> "/"]

\* MySQLConnection.prefix_match: "LIKE %s ESCAPE '/'"
prefix_match == [op |-> "LIKE", escape |-> "/"]

\* MySQLConnection.like_escape: _like_escape_re.sub(r'/\1', text)
like_escape(text) == ReSubPrefix(_like_escape_re, <<"/">>, text)

\* MySQLConnection.prefix_match_value
prefix_match_value(prefix) == like_escape(prefix) \o <<"%">>

\* ------------------------------------------------------- Dialect Type Mapper
\* str.lower() on the type names of the model
Lower(type) ==
    CASE type = "TEXT"  -> "text"
      [] type = "INT"   -> "int"
      [] type = "INT64" -> "int64"
      [] OTHER          -> type

\* _type_map.get(ctype, ctype) with _type_map = {'int64': 'bigint',
\* 'text': 'mediumtext'}
_type_map_get(ctype) ==
    CASE ctype = "int64" -> "bigint"
      [] ctype = "text"  -> "mediumtext"
      [] OTHER           -> ctype

\* ------------------------------------------------------- Key-Length Limiter
_max_key_length == 3072
MaxColumnKeyBytes == 767

\* Mutant of limit_col: the per-column cap taken in characters, not bytes
limit_col_Characters(mb) == MaxColumnKeyBytes

\* limit_col = 767 // max_bytes
limit_col(mb) == MaxColumnKeyBytes \div mb

\* Mutant of limit: the per-column cap alone, without the shared budget
limit_NoSharedBudget(mb, ncolumns) == MaxColumnKeyBytes \div mb

\* limit = min(self._max_key_length // (max_bytes * len(columns)), limit_col)
limit(mb, ncolumns) ==
    Min(_max_key_length \div (mb * ncolumns), limit_col(mb))

\* The body of _collist's loop for the column name c: the quoted name and
\* the prefix length appended to it, None when none is appended.
CollistEntry(table, c, mb, ncolumns) ==
    LET table_col == SelectSeq(table.columns, LAMBDA x : x.name = c)
    IN  [name |-> _quote(c),
         len  |-> IF Len(table_col) = 1 /\ Lower(table_col[1].type) = "text"
                  THEN IF table_col[1].key_size # None
                       THEN <<Min(table_col[1].key_size[1], limit_col(mb))>>
                       ELSE <<limit(mb, ncolumns)>>
                  ELSE None]

\* MySQLConnector._collist: the entries that ','.join(cols) joins
_collist(table, columns, mb) ==
    [i \in 1..Len(columns) |-> CollistEntry(table, columns[i], mb, Len(columns))]

\* ------------------------------------------------------------- DDL Compiler
AUTO_INCREMENT_TYPE == "INT UNSIGNED NOT NULL AUTO_INCREMENT"

\* The ctype to_sql writes for a column
ColumnCType(column) ==
    IF column.auto_increment THEN AUTO_INCREMENT_TYPE
    ELSE _type_map_get(column.type)

\* Mutant of LoweredColumn: a column declared 'text' keeps its type
LoweredColumn_KeepsText(column) ==
    IF column.auto_increment /\ column.type # "text"
    THEN [column EXCEPT !.type = "int"] ELSE column

\* Mutant of LoweredColumn: the type of the column object is left as declared
LoweredColumn_NoRewrite(column) == column

\* The column object after to_sql's loop body: column.type = 'int'
LoweredColumn(column) ==
    IF column.auto_increment THEN [column EXCEPT !.type = "int"] ELSE column

\* The table object once to_sql's loop over table.columns has finished
LoweredTable(table) ==
    [table EXCEPT !.columns =
        [i \in 1..Len(table.columns) |-> LoweredColumn(table.columns[i])]]

\* Mutant of CollistTable: the column lists are built from the columns as
\* they were before the loop rewrote them
CollistTable_BeforeLoop(table) == table

\* The table whose columns the PRIMARY KEY and CREATE INDEX column lists
\* are looked up in: the loop over table.columns has already run.
CollistTable(table) == LoweredTable(table)

ColumnDef(column) ==
    [clause |-> "COLUMN", name |-> _quote(column.name),
     ctype |-> ColumnCType(column), cols |-> <<>>]

PrimaryKeyDef(table, mb) ==
    [clause |-> "PRIMARY KEY", name |-> <<>>, ctype |-> "",
     cols |-> _collist(CollistTable(table), table.key, mb)]

\* The first statement to_sql yields
CreateTableStmt(table, mb) ==
    [kind    |-> "CREATE TABLE",
     unique  |-> "",
     name    |-> <<>>,
     table   |-> _quote(table.name),
     coldefs |-> [i \in 1..Len(table.columns) |-> ColumnDef(table.columns[i])]
                 \o (IF Len(table.key) > 0 THEN <<PrimaryKeyDef(table, mb)>>
                                           ELSE <<>>),
     cols    |-> <<>>]

\* Mutant of IdxName: the column names are joined without the separator
IdxName_NoSeparator(table, index) ==
    table.name \o <<"_">> \o Join(<<>>, index.columns) \o <<"_", "i", "d", "x">>

\* idxname = '%s_%s_idx' % (table.name, '_'.join(index.columns))
IdxName(table, index) ==
    table.name \o <<"_">> \o Join(<<"_">>, index.columns) \o <<"_", "i", "d", "x">>

\* 'UNIQUE' if index.unique else ''
UniqueWord(index) == IF index.unique THEN "UNIQUE" ELSE ""

\* A statement of to_sql's second loop
CreateIndexStmt(table, index, mb) ==
    [kind    |-> "CREATE INDEX",
     unique  |-> UniqueWord(index),
     name    |-> _quote(IdxName(table, index)),
     table   |-> _quote(table.name),
     coldefs |-> <<>>,
     cols    |-> _collist(CollistTable(table), index.columns, mb)]

\* The statements MySQLConnector.to_sql yields, in order
to_sql(table, mb) ==
    <<CreateTableStmt(table, mb)>>
    \o [i \in 1..Len(table.indices) |-> CreateIndexStmt(table, table.indices[i], mb)]

\* Mutant of alter_column_types: the types are compared as given, unmapped
alter_column_types_Unmapped(table, columns) ==
    LET names  == Sorted(DOMAIN columns)
        differ == SelectSeq(names, LAMBDA n : columns[n][2] # columns[n][1])
        alterations == [i \in 1..Len(differ) |->
                          <<differ[i], _type_map_get(columns[differ[i]][2])>>]
    IN  IF Len(differ) > 0
        THEN <<[kind |-> "ALTER TABLE", table |-> table, modify |-> alterations]>>
        ELSE <<>>

\* MySQLConnector.alter_column_types; columns is a dict name -> <<from, to>>
alter_column_types(table, columns) ==
    LET names  == Sorted(DOMAIN columns)
        differ == SelectSeq(names, LAMBDA n :
                      _type_map_get(columns[n][2]) # _type_map_get(columns[n][1]))
        alterations == [i \in 1..Len(differ) |->
                          <<differ[i], _type_map_get(columns[differ[i]][2])>>]
    IN  IF Len(differ) > 0
        THEN <<[kind |-> "ALTER TABLE", table |-> table, modify |-> alterations]>>
        ELSE <<>>

\* MySQLConnector._max_bytes: 4 if charset == 'utf8mb4' else 3
_max_bytes(charset) == IF charset = "utf8mb4" THEN 4 ELSE 3

\* ------------------------------------------------------- Connection Wrapper
\* The driver session behind self.cnx is "live", "invalid" (the server has
\* invalidated it) or "closed".  A driver call returns or raises; the
\* outcomes below are the pairs [result, session] it can end in.

\* self.cnx.ping(): the liveness probe.  On a session that is not live it
\* finds the transport still up, or reconnects, or reports the failure.
DriverPing(s) ==
    IF s = "live" THEN {[result |-> "ok", session |-> "live"]}
    ELSE (IF s = "invalid" THEN {[result |-> "ok", session |-> "invalid"]} ELSE {})
         \cup {[result |-> "reconnected", session |-> "live"],
               [result |-> "OperationalError", session |-> s]}

\* self.cnx.rollback(): ProgrammingError when the session is not usable
DriverRollback(s) ==
    IF s = "live" THEN {[result |-> "ok", session |-> "live"]}
    ELSE {[result |-> "ProgrammingError", session |-> s]}

\* self.cnx.close(): ProgrammingError is the driver's 'already closed'
DriverClose(s) ==
    IF s = "live" THEN {[result |-> "ok", session |-> "closed"]}
    ELSE IF s = "invalid"
         THEN {[result |-> "ok", session |-> "closed"],
               [result |-> "ProgrammingError", session |-> "closed"]}
         ELSE {[result |-> "ProgrammingError", session |-> "closed"]}

Call(name, outcome) == [call |-> name, result |-> outcome.result]

\* Mutant of RollbackHandler: the ProgrammingError is not caught
RollbackHandler_Uncaught(result, closed) ==
    IF result = "ProgrammingError"
    THEN [raised |-> "ProgrammingError", is_closed |-> closed]
    ELSE [raised |-> "none", is_closed |-> closed]

\* rollback(), after a ping that returned: try: self.cnx.rollback()
\* except pymysql.ProgrammingError: self._is_closed = True
RollbackHandler(result, closed) ==
    IF result = "ProgrammingError"
    THEN [raised |-> "none", is_closed |-> TRUE]
    ELSE [raised |-> "none", is_closed |-> closed]

\* Mutant of CloseCallsDriver: close() does not test _is_closed
CloseCallsDriver_Always(closed) == TRUE

\* close(): if not self._is_closed
CloseCallsDriver(closed) == ~closed

\* close(): try: self.cnx.close() except pymysql.ProgrammingError: pass
CloseHandler(result) == "none"

\* ------------------------------------------------------------------ states
PureIdle == args = <<>> /\ rets = <<>>
DDLIdle  == schema = <<>> /\ declared = <<>> /\ max_bytes = 3 /\ out = <<>>

\* A MySQLConnection as __init__ leaves it: a live session, _is_closed False
ConnInit ==
    /\ session = "live"
    /\ is_closed = FALSE
    /\ lastOp = "none"
    /\ raised = "none"
    /\ opCalls = <<>>
    /\ nClose = 0
    /\ nRollback = 0
    /\ opSession = "none"
    /\ driverCloses = <<>>

\* A connector that has not been used: required = False (class attribute),
\* no session opened, no operation performed
ConnectorIdle ==
    /\ db_prop = <<>>
    /\ server = <<>>
    /\ environ = <<>>
    /\ required = FALSE
    /\ sessions = <<>>
    /\ conn = <<>>
    /\ events = <<>>
    /\ opResult = [op |-> "none", raised |-> "none"]
    /\ nOps = 0
    /\ config = <<>>

\* ----------------------------------------------------- quote / LIKE helpers
TextChars == {"a", BACKTICK, "/", "_", "%"}

TextInit ==
    /\ args \in StringsUpTo(TextChars, MaxLen)
    /\ rets = <<>>
    /\ DDLIdle /\ ConnInit /\ ConnectorIdle

Return(fn, arg, val) ==
    /\ Len(rets) < MaxCalls
    /\ rets' = Append(rets, [fn |-> fn, arg |-> arg, val |-> val])
    /\ UNCHANGED <<args, ddlVars, connVars, connectorVars>>

\* quote(x), on the drawn identifier or on an identifier quoted before
QuoteCall ==
    \E x \in {args} \cup {rets[i].val : i \in {j \in 1..Len(rets) : rets[j].fn = "quote"}} :
        Return("quote", x, quote(x))

LikeEscapeCall == Return("like_escape", args, like_escape(args))

PrefixMatchValueCall ==
    Return("prefix_match_value", args, prefix_match_value(args))

TextNext == QuoteCall \/ LikeEscapeCall \/ PrefixMatchValueCall

SpecText == TextInit /\ [][TextNext]_vars

\* ---------------------------------------------------------------- _collist
ColumnNames == <<"a", "b", "c", "d", "i", "t", "u", "x">>

ColName(i) == <<ColumnNames[i]>>

\* A name that is no column of any drawn table
NoColumn == <<"x", "x">>

Column(name, type, key_size, auto_increment) ==
    [name |-> name, type |-> type, key_size |-> key_size,
     auto_increment |-> auto_increment]

Table(name, columns, key, indices) ==
    [name |-> name, columns |-> columns, key |-> key, indices |-> indices]

Index(columns, unique) == [columns |-> columns, unique |-> unique]

KeyColumnKinds ==
    {[type |-> "text", key_size |-> None],
     [type |-> "text", key_size |-> <<10>>],
     [type |-> "text", key_size |-> <<1000>>],
     [type |-> "TEXT", key_size |-> None],
     [type |-> "int",  key_size |-> <<10>>]}

\* The table with one column per entry of kinds, named by position
KeyTable(kinds) ==
    Table(<<"t">>,
          [i \in 1..Len(kinds) |->
              Column(ColName(i), kinds[i].type, kinds[i].key_size, FALSE)],
          <<>>, <<>>)

AllNames(table) == [i \in 1..Len(table.columns) |-> table.columns[i].name]

\* The column lists drawn for a table: all its columns, the same with a
\* name that is no column, and its first column twice.
ColumnLists(table) ==
    {AllNames(table),
     [AllNames(table) EXCEPT ![1] = NoColumn],
     <<AllNames(table)[1], AllNames(table)[1]>>}

Charsets == {"utf8", "utf8mb4"}

CollistInit ==
    /\ \E n \in 1..MaxKeyCols : \E kinds \in [1..n -> KeyColumnKinds] :
       \E cl \in ColumnLists(KeyTable(kinds)) : \E cs \in Charsets :
          args = [table |-> KeyTable(kinds), columns |-> cl,
                  max_bytes |-> _max_bytes(cs)]
    /\ rets = <<>>
    /\ DDLIdle /\ ConnInit /\ ConnectorIdle

CollistCall ==
    /\ rets = <<>>
    /\ Return("_collist", args, _collist(args.table, args.columns, args.max_bytes))

CollistNext == CollistCall

SpecCollist == CollistInit /\ [][CollistNext]_vars

\* ------------------------------------------------------ alter_column_types
AlterTypes == {"int", "int64", "bigint", "text", "mediumtext"}

AlterNames == {<<"b">>, <<"a">>, <<"a", "b">>, <<"_">>}

AlterInit ==
    /\ \E D \in SUBSET AlterNames :
          /\ Cardinality(D) <= MaxAlter
          /\ \E d \in [D -> AlterTypes \X AlterTypes] :
                args = [table |-> <<"t">>, columns |-> d]
    /\ rets = <<>>
    /\ DDLIdle /\ ConnInit /\ ConnectorIdle

AlterCall ==
    /\ rets = <<>>
    /\ Return("alter_column_types", args,
              alter_column_types(args.table, args.columns))

AlterNext == AlterCall

SpecAlter == AlterInit /\ [][AlterNext]_vars

\* ------------------------------------------------------------------ to_sql
DDLColumnKinds == [type : {"text", "int64"}, auto_increment : BOOLEAN]

\* The table named name with one column per entry of kinds
DDLTable(name, kinds, key, indices) ==
    Table(name,
          [i \in 1..Len(kinds) |->
              Column(ColName(i), kinds[i].type, None, kinds[i].auto_increment)],
          key, indices)

\* The keys drawn for columns names: none, the first column, all columns
KeyChoices(names) == {<<>>, <<names[1]>>, names}

\* The indices drawn: a plain one on the first column, a unique one on all
IndexChoices(names) == {Index(<<names[1]>>, FALSE), Index(names, TRUE)}

\* The other table of the schema: an auto-increment text key and an index
OtherTable ==
    Table(<<"u">>,
          <<Column(<<"i", "d">>, "text", None, TRUE),
            Column(<<"a">>, "text", None, FALSE)>>,
          <<<<"i", "d">>>>,
          <<Index(<<<<"a">>>>, FALSE)>>)

DDLInit ==
    /\ \E n \in 1..MaxCols : \E kinds \in [1..n -> DDLColumnKinds] :
       \E key \in KeyChoices([i \in 1..n |-> ColName(i)]) :
       \E k \in 0..MaxIdx :
       \E indices \in [1..k -> IndexChoices([i \in 1..n |-> ColName(i)])] :
          schema = <<DDLTable(<<"t">>, kinds, key, indices), OtherTable>>
    /\ declared = schema
    /\ max_bytes \in {_max_bytes(cs) : cs \in Charsets}
    /\ out = <<>>
    /\ PureIdle /\ ConnInit /\ ConnectorIdle

\* list(to_sql(schema[i], max_bytes)): the statements, and the rewrite of
\* the auto-increment columns' type in the Table object
ToSqlCall(i) ==
    /\ Len(out) < MaxCompiles
    /\ out' = Append(out, [t |-> i, stmts |-> to_sql(schema[i], max_bytes)])
    /\ schema' = [schema EXCEPT ![i] = LoweredTable(schema[i])]
    /\ UNCHANGED <<declared, max_bytes, pureVars, connVars,
                   connectorVars>>

DDLNext == \E i \in 1..Len(schema) : ToSqlCall(i)

SpecDDL == DDLInit /\ [][DDLNext]_vars

\* -------------------------------------------------- close() and rollback()
\* MySQLConnection.rollback
Rollback ==
    /\ nRollback < MaxRollbacks
    /\ nRollback' = nRollback + 1
    /\ lastOp' = "rollback"
    /\ opSession' = session
    /\ \E p \in DriverPing(session) :
          IF p.result = "OperationalError"
          THEN /\ opCalls' = <<Call("ping", p)>>
               /\ raised' = p.result
               /\ session' = p.session
               /\ UNCHANGED is_closed
          ELSE \E r \in DriverRollback(p.session) :
                  /\ opCalls' = <<Call("ping", p), Call("rollback", r)>>
                  /\ raised' = RollbackHandler(r.result, is_closed).raised
                  /\ is_closed' = RollbackHandler(r.result, is_closed).is_closed
                  /\ session' = r.session
    /\ UNCHANGED <<nClose, driverCloses, pureVars, ddlVars, connectorVars>>

\* MySQLConnection.close
Close ==
    /\ nClose < MaxCloses
    /\ lastOp' = "close"
    /\ opSession' = session
    /\ nClose' = nClose + 1
    /\ IF CloseCallsDriver(is_closed)
       THEN \E c \in DriverClose(session) :
               /\ opCalls' = <<Call("close", c)>>
               /\ driverCloses' = Append(driverCloses, c.result)
               /\ session' = c.session
               /\ raised' = CloseHandler(c.result)
               /\ is_closed' = (IF raised' = "none" THEN TRUE ELSE is_closed)
       ELSE /\ opCalls' = <<>>
            /\ raised' = "none"
            /\ UNCHANGED <<session, is_closed, driverCloses>>
    /\ UNCHANGED <<nRollback, pureVars, ddlVars, connectorVars>>

\* The server invalidates the session (timeout, kill, failed transaction)
Invalidate ==
    /\ session = "live"
    /\ session' = "invalid"
    /\ UNCHANGED <<is_closed, lastOp, raised, opCalls, nClose, nRollback,
                   opSession, driverCloses, pureVars, ddlVars, connectorVars>>

ConnNext == Rollback \/ Close \/ Invalidate

ConnSpecInit == ConnInit /\ PureIdle /\ DDLIdle /\ ConnectorIdle

SpecConn == ConnSpecInit /\ [][ConnNext]_vars

\* ------------------------------------------------- MySQLConnection.__init__
\* A str or int the code may find missing (an argument left at None, a key
\* not in db_prop) is None or <<value>>.

\* trac.util.as_int(value, default): int(value), default when that fails
as_int(value, default) ==
    CASE value = "0" -> 0
      [] value = "1" -> 1
      [] OTHER       -> default

\* value.lower(), on the charset values of the model
str_lower(value) ==
    CASE value = "UTF8MB4" -> "utf8mb4"
      [] value = "UTF8"    -> "utf8"
      [] OTHER             -> value

\* opts[name] = value
SetItem(opts, name, value) == (name :> value) @@ opts

\* The branch of __init__'s loop over params that ends in self.log.warning
CtorWarns(name, value) ==
    IF name \in {"read_default_group", "init_command", "read_default_file",
                 "unix_socket", "compress", "named_pipe"}
    THEN FALSE
    ELSE IF name = "charset"
         THEN str_lower(value) \notin {"utf8", "utf8mb4"}
         ELSE TRUE

\* The arguments of that self.log.warning call
CtorWarning(name, value) ==
    IF name = "charset" THEN <<name, str_lower(value)>> ELSE <<name>>

\* The value the other branches store in opts[name]
CtorOptValue(name, value) ==
    IF name \in {"compress", "named_pipe"} THEN as_int(value, 0)
    ELSE IF name = "charset" THEN str_lower(value)
    ELSE value

\* self.log.warning(...) inside __init__.  The log attribute is set by
\* ConnectionWrapper.__init__(self, cnx, log), which __init__ calls last
\* (line 419): before that call the attribute does not exist and reading it
\* raises.
SelfLogWarning(wrapperInitialised) ==
    IF wrapperInitialised THEN "none" ELSE "AttributeError"

RECURSIVE CtorLoop(_, _, _)
\* for name, value in params.items(): ...  gives opts, the warnings logged
\* and the exception that ended the loop, if any
CtorLoop(params, opts, logged) ==
    IF params = <<>>
    THEN [opts |-> opts, logged |-> logged, raised |-> "none"]
    ELSE LET name  == Head(params)[1]
             value == Head(params)[2]
         IN  IF CtorWarns(name, value)
             THEN IF SelfLogWarning(FALSE) = "none"
                  THEN CtorLoop(Tail(params), opts,
                                Append(logged, CtorWarning(name, value)))
                  ELSE [opts |-> opts, logged |-> logged,
                        raised |-> SelfLogWarning(FALSE)]
             ELSE CtorLoop(Tail(params),
                           SetItem(opts, name, CtorOptValue(name, value)),
                           logged)

\* port = 3306 when the URI names none
DefaultPort == 3306

\* SHOW VARIABLES WHERE variable_name='character_set_database', with
\* 'utf8mb3' read as 'utf8': the value of self.charset
NegotiatedCharset(srv) ==
    IF srv.variables["character_set_database"] = "utf8mb3" THEN "utf8"
    ELSE srv.variables["character_set_database"]

\* Mutant of CtorReconnects: the first session is kept whatever its charset
CtorReconnects_Never(charset, opts) == FALSE

\* if self.charset != opts['charset']
CtorReconnects(charset, opts) == charset # opts["charset"]

\* The driver's record of a session it opened
Session(charset) == [charset |-> charset, open |-> TRUE]

\* The constructor's outcomes on the server srv, the driver having opened
\* the sessions sess: the driver calls made, the sessions afterwards, the
\* object if it was constructed and the exception if not.  Each
\* pymysql.connect opens a session or raises the driver's OperationalError.
MySQLConnection(prop, srv, sess) ==
    LET path     == IF prop.path # <<>> /\ Head(prop.path) = "/"
                    THEN Tail(prop.path) ELSE prop.path
        password == IF prop.password = None THEN "" ELSE prop.password[1]
        port     == IF prop.port = None THEN DefaultPort ELSE prop.port[1]
        loop     == CtorLoop(prop.params, "charset" :> "utf8", <<>>)
        Logged   == [i \in 1..Len(loop.logged) |->
                        [ev |-> "log.warning", args |-> loop.logged[i]]]
        Connect(i, opts, r) ==
            [ev |-> "connect", cnx |-> i, result |-> r, db |-> path,
             user |-> prop.user, passwd |-> password, host |-> prop.host,
             port |-> port, opts |-> opts]
        first    == Len(sess) + 1
        charset  == NegotiatedCharset(srv)
        opts2    == SetItem(loop.opts, "charset", charset)
        sess1    == Append(sess, Session(loop.opts["charset"]))
        closed1  == [sess1 EXCEPT ![first].open = FALSE]
        Object(i) == <<[charset |-> charset, schema |-> path, cnx |-> i]>>
    IN  IF loop.raised # "none"
        THEN {[events |-> Logged, sessions |-> sess, conn |-> None,
               raised |-> loop.raised]}
        ELSE {[events |-> Logged \o <<Connect(first, loop.opts,
                                              "OperationalError")>>,
               sessions |-> sess, conn |-> None,
               raised |-> "OperationalError"]}
             \cup
             (IF CtorReconnects(charset, loop.opts)
              THEN {[events |-> Logged \o
                        <<Connect(first, loop.opts, "ok"),
                          [ev |-> "close", cnx |-> first],
                          Connect(first + 1, opts2, "OperationalError")>>,
                     sessions |-> closed1, conn |-> None,
                     raised |-> "OperationalError"],
                    [events |-> Logged \o
                        <<Connect(first, loop.opts, "ok"),
                          [ev |-> "close", cnx |-> first],
                          Connect(first + 1, opts2, "ok")>>,
                     sessions |-> Append(closed1, Session(charset)),
                     conn |-> Object(first + 1), raised |-> "none"]}
              ELSE {[events |-> Logged \o <<Connect(first, loop.opts, "ok")>>,
                     sessions |-> sess1, conn |-> Object(first),
                     raised |-> "none"]})

\* MySQLConnector.get_connection
GetConnection ==
    /\ nOps < MaxOps
    /\ nOps' = nOps + 1
    /\ \E c \in MySQLConnection(db_prop, server, sessions) :
          /\ events' = c.events
          /\ sessions' = c.sessions
          /\ conn' = c.conn
          /\ opResult' = [op |-> "get_connection", raised |-> c.raised]
          /\ required' = (IF c.raised = "none" THEN TRUE ELSE required)
    /\ UNCHANGED <<db_prop, server, environ, pureVars, ddlVars, connVars, config>>

\* The parameters a connection URI may carry, with the values drawn for each
ParamChoices ==
    {<<"compress", "0">>, <<"compress", "1">>, <<"named_pipe", "1">>,
     <<"read_default_file", "f">>, <<"read_default_group", "g">>,
     <<"unix_socket", "s">>, <<"init_command", "c">>,
     <<"charset", "utf8">>, <<"charset", "UTF8MB4">>,
     <<"charset", "latin1">>, <<"bogus", "x">>}

\* params.items() of a mapping of at most n parameters: no name twice
ParamLists(n) ==
    {s \in UNION {[1..k -> ParamChoices] : k \in 0..n} :
        \A i, j \in 1..Len(s) : i # j => s[i][1] # s[j][1]}

\* character_set_database of the servers drawn
ServerCharsets == {"utf8", "utf8mb3", "utf8mb4", "latin1"}

CtorInit ==
    /\ \E ps \in ParamLists(MaxParams) : \E pw \in {None, <<"pw">>} :
          db_prop = [path |-> <<"/", "t">>, user |-> <<"u">>, password |-> pw,
                     host |-> <<"h">>, port |-> None, params |-> ps]
    /\ \E cs \in ServerCharsets :
          server = [variables |-> "character_set_database" :> cs,
                    tables |-> <<>>]
    /\ environ = <<>>
    /\ required = FALSE
    /\ sessions = <<>>
    /\ conn = None
    /\ events = <<>>
    /\ opResult = [op |-> "none", raised |-> "none"]
    /\ nOps = 0
    /\ config = <<>>
    /\ PureIdle /\ DDLIdle /\ ConnInit

CtorNext == GetConnection

SpecCtor == CtorInit /\ [][CtorNext]_vars

\* ------------------------------------------------------ the MySQL server
\* server.variables maps the names SHOW VARIABLES reports to their values;
\* server.tables maps the names of the tables of the database to the Engine
\* and Collation columns of their SHOW TABLE STATUS row.

\* d.get(name)
DictGet(d, name) == IF name \in DOMAIN d THEN <<d[name]>> ELSE None

\* a or b, for two optional strings
PyOr(a, b) == IF a = None \/ a = <<"">> THEN b ELSE a

UNSUPPORTED_ENGINES == {"MyISAM", "EXAMPLE", "ARCHIVE", "CSV", "ISAM"}

SUPPORTED_COLLATIONS ==
    {<<"utf8mb4", "utf8mb4_bin">>, <<"utf8mb3", "utf8_bin">>,
     <<"utf8", "utf8_bin">>}

\* Mutant of DefaultEngine: storage_engine is not consulted
DefaultEngine_NoFallback(variables) ==
    DictGet(variables, "default_storage_engine")

\* vars.get('default_storage_engine') or vars.get('storage_engine')
DefaultEngine(variables) ==
    PyOr(DictGet(variables, "default_storage_engine"),
         DictGet(variables, "storage_engine"))

\* MySQLConnector._verify_variables: "none", or the TracError it raises
_verify_variables(srv) ==
    LET engine     == DefaultEngine(srv.variables)
        tmp_engine == DictGet(srv.variables, "default_tmp_storage_engine")
        charset    == srv.variables["character_set_database"]
        collation  == srv.variables["collation_database"]
    IN  IF engine # None /\ engine[1] \in UNSUPPORTED_ENGINES
        THEN "TracError"
        ELSE IF tmp_engine # None /\ tmp_engine[1] \in UNSUPPORTED_ENGINES
        THEN "TracError"
        ELSE IF <<charset, collation>> \notin SUPPORTED_COLLATIONS
        THEN "TracError"
        ELSE "none"

\* A table of trac.db_default.schema
TicketTable ==
    Table(<<"t">>,
          <<Column(<<"i">>, "int", None, TRUE),
            Column(<<"a">>, "text", None, FALSE)>>,
          <<<<"i">>>>,
          <<Index(<<<<"a">>>>, FALSE)>>)

\* Another table of trac.db_default.schema
SystemTable ==
    Table(<<"u">>, <<Column(<<"a">>, "text", None, FALSE)>>,
          <<<<"a">>>>, <<>>)

\* trac.db_default.schema: the tables of the application
DefaultSchema == <<TicketTable, SystemTable>>

\* A table of a plugin, not in trac.db_default.schema
CustomTable ==
    Table(<<"c">>, <<Column(<<"a">>, "text", None, FALSE)>>, <<>>, <<>>)

\* [t.name for t in schema]
TableNamesOf(tables) == {tables[i].name : i \in 1..Len(tables)}

\* The rows of SHOW TABLE STATUS WHERE name IN (names), by name
TableStatus(srv, names) == {n \in DOMAIN srv.tables : n \in names}

\* MySQLConnector._verify_table_status: "none", or the TracError it raises
_verify_table_status(srv) ==
    LET rows    == TableStatus(srv, TableNamesOf(DefaultSchema))
        engines == {n \in rows : srv.tables[n].Engine \in UNSUPPORTED_ENGINES}
        non_utf8bin ==
            {n \in rows : srv.tables[n].Collation
                             \notin {<<"utf8_bin">>, <<"utf8mb4_bin">>, None}}
    IN  IF engines # {} THEN "TracError"
        ELSE IF non_utf8bin # {} THEN "TracError"
        ELSE "none"

\* The names a connection's statements may refer to
TableNames == {<<"t">>, <<"u">>, <<"c">>, <<"o">>}

\* The table a quoted identifier names
ServerIdentifier(quoted) == CHOOSE n \in TableNames : _quote(n) = quoted

\* The status rows the server may give a table it creates: the default
\* engine or its substitute, the database's collation or another
NewTableStatuses ==
    {[Engine |-> "InnoDB", Collation |-> <<"utf8_bin">>],
     [Engine |-> "MyISAM", Collation |-> <<"utf8_bin">>],
     [Engine |-> "InnoDB", Collation |-> <<"utf8_general_ci">>]}

\* The server executing a DDL statement: the outcomes [result, tables].
\* DDL is committed as it is executed.  CREATE TABLE fails on a name that
\* exists; any statement may fail for the server's own reasons.
ServerExecute(stmt, tables) ==
    {[result |-> "OperationalError", tables |-> tables]}
    \cup
    (IF stmt.kind = "CREATE TABLE"
     THEN IF ServerIdentifier(stmt.table) \in DOMAIN tables
          THEN {}
          ELSE {[result |-> "ok",
                 tables |-> (ServerIdentifier(stmt.table) :> st) @@ tables] :
                   st \in NewTableStatuses}
     ELSE {[result |-> "ok", tables |-> tables]})

\* cnx.get_table_names(), as a set: the rows come in the server's order
get_table_names(srv) == DOMAIN srv.tables

\* The server without the table named n
Without(tables, n) == [m \in DOMAIN tables \ {n} |-> tables[m]]

\* ----------------------------------------- init_db, destroy_db, db_exists
RECURSIVE Statements(_, _)
\* The statements init_db's two loops execute: to_sql(table) of each table
\* of the schema, in order
Statements(tables, mb) ==
    IF tables = <<>> THEN <<>>
    ELSE to_sql(Head(tables), mb) \o Statements(Tail(tables), mb)

Executed(stmt, r) == [ev |-> "execute", stmt |-> stmt, result |-> r]

RECURSIVE ExecuteAll(_, _)
\* cursor.execute(stmt) for each statement in turn, up to the first that
\* raises: the outcomes [events, tables, raised]
ExecuteAll(stmts, tables) ==
    IF stmts = <<>>
    THEN {[events |-> <<>>, tables |-> tables, raised |-> "none"]}
    ELSE UNION {
           IF o.result # "ok"
           THEN {[events |-> <<Executed(Head(stmts), o.result)>>,
                  tables |-> o.tables, raised |-> o.result]}
           ELSE {[events |-> <<Executed(Head(stmts), "ok")>> \o r.events,
                  tables |-> r.tables, raised |-> r.raised] :
                    r \in ExecuteAll(Tail(stmts), o.tables)} :
           o \in ServerExecute(Head(stmts), tables)}

\* init_db: if schema is None: from trac.db_default import schema
SchemaOf(arg) == IF arg = None THEN DefaultSchema ELSE arg[1]

\* Mutant of InitDbAfterDDL: the commit is issued whatever the verification
\* of the tables found
InitDbAfterDDL_CommitAnyway(srv) ==
    <<[ev |-> "verify_table_status", raised |-> _verify_table_status(srv)],
      [ev |-> "commit"]>>

\* init_db after its loops: self._verify_table_status(cnx); cnx.commit()
InitDbAfterDDL(srv) ==
    IF _verify_table_status(srv) # "none"
    THEN <<[ev |-> "verify_table_status",
            raised |-> _verify_table_status(srv)]>>
    ELSE <<[ev |-> "verify_table_status", raised |-> "none"],
           [ev |-> "commit"]>>

\* The exception a sequence of events ended in, if any
RaisedBy(evs) ==
    IF evs # <<>> /\ "raised" \in DOMAIN evs[Len(evs)]
    THEN evs[Len(evs)].raised ELSE "none"

\* The outcomes of init_db(schema=arg) with a connection c just constructed
InitDbWith(c, srv, arg) ==
    IF _verify_variables(srv) # "none"
    THEN {[events |-> <<[ev |-> "verify_variables",
                         raised |-> _verify_variables(srv)]>>,
           tables |-> srv.tables, raised |-> _verify_variables(srv)]}
    ELSE {IF x.raised # "none"
          THEN [events |-> <<[ev |-> "verify_variables", raised |-> "none"]>>
                           \o x.events,
                tables |-> x.tables, raised |-> x.raised]
          ELSE LET after == InitDbAfterDDL([srv EXCEPT !.tables = x.tables])
               IN  [events |-> <<[ev |-> "verify_variables",
                                  raised |-> "none"]>>
                               \o x.events \o after,
                    tables |-> x.tables, raised |-> RaisedBy(after)] :
          x \in ExecuteAll(Statements(SchemaOf(arg), _max_bytes(c.charset)),
                           srv.tables)}

\* The schema arguments init_db is called with: none, an empty schema, a
\* plugin's table, a plugin's table and one of the application's
SchemaArgs ==
    {None, <<<<>>>>, <<<<CustomTable>>>>, <<<<CustomTable, TicketTable>>>>}

\* MySQLConnector.init_db
InitDb ==
    /\ nOps < MaxOps
    /\ nOps' = nOps + 1
    /\ \E arg \in SchemaArgs :
       \E c \in MySQLConnection(db_prop, server, sessions) :
          /\ sessions' = c.sessions
          /\ conn' = c.conn
          /\ required' = (IF c.raised = "none" THEN TRUE ELSE required)
          /\ IF c.raised # "none"
             THEN /\ events' = c.events
                  /\ opResult' = [op |-> "init_db", arg |-> arg,
                                  raised |-> c.raised]
                  /\ UNCHANGED server
             ELSE \E x \in InitDbWith(c.conn[1], server, arg) :
                  /\ events' = c.events \o x.events
                  /\ opResult' = [op |-> "init_db", arg |-> arg,
                                  raised |-> x.raised]
                  /\ server' = [server EXCEPT !.tables = x.tables]
    /\ UNCHANGED <<db_prop, environ, pureVars, ddlVars, connVars, config>>

Dropped(n, r) == [ev |-> "drop_table", table |-> n, result |-> r]

RECURSIVE DropAll(_, _)
\* for table_name in cnx.get_table_names(): cnx.drop_table(table_name),
\* the names in any order: the outcomes [events, tables, raised]
DropAll(names, tables) ==
    IF names = {}
    THEN {[events |-> <<>>, tables |-> tables, raised |-> "none"]}
    ELSE UNION {
           {[events |-> <<Dropped(n, "OperationalError")>>,
             tables |-> tables, raised |-> "OperationalError"]}
           \cup
           {[events |-> <<Dropped(n, "ok")>> \o r.events,
             tables |-> r.tables, raised |-> r.raised] :
               r \in DropAll(names \ {n}, Without(tables, n))} :
           n \in names}

\* MySQLConnector.destroy_db
DestroyDb ==
    /\ nOps < MaxOps
    /\ nOps' = nOps + 1
    /\ \E c \in MySQLConnection(db_prop, server, sessions) :
          /\ sessions' = c.sessions
          /\ conn' = c.conn
          /\ required' = (IF c.raised = "none" THEN TRUE ELSE required)
          /\ IF c.raised # "none"
             THEN /\ events' = c.events
                  /\ opResult' = [op |-> "destroy_db", raised |-> c.raised]
                  /\ UNCHANGED server
             ELSE \E x \in DropAll(get_table_names(server), server.tables) :
                  /\ events' = c.events
                        \o <<[ev |-> "get_table_names",
                              names |-> get_table_names(server)]>>
                        \o x.events
                        \o (IF x.raised = "none" THEN <<[ev |-> "commit"]>>
                                                 ELSE <<>>)
                  /\ opResult' = [op |-> "destroy_db", raised |-> x.raised]
                  /\ server' = [server EXCEPT !.tables = x.tables]
    /\ UNCHANGED <<db_prop, environ, pureVars, ddlVars, connVars, config>>

\* Mutant of DbExistsValue: the database is taken to exist once it can be
\* connected to
DbExistsValue_Connected(names) == TRUE

\* bool(cnx.get_table_names())
DbExistsValue(names) == names # {}

\* MySQLConnector.db_exists
DbExists ==
    /\ nOps < MaxOps
    /\ nOps' = nOps + 1
    /\ \E c \in MySQLConnection(db_prop, server, sessions) :
          /\ sessions' = c.sessions
          /\ conn' = c.conn
          /\ required' = (IF c.raised = "none" THEN TRUE ELSE required)
          /\ IF c.raised # "none"
             THEN /\ events' = c.events
                  /\ opResult' = [op |-> "db_exists", raised |-> c.raised]
             ELSE /\ events' = c.events
                        \o <<[ev |-> "get_table_names",
                              names |-> get_table_names(server)]>>
                  /\ opResult' =
                        [op |-> "db_exists", raised |-> "none",
                         value |-> DbExistsValue(get_table_names(server))]
    /\ UNCHANGED <<db_prop, server, environ, pureVars, ddlVars, connVars, config>>

\* Mutant of UpgradeVerifies: the verification does not wait for the
\* connector to be in use
UpgradeVerifies_Always(req) == TRUE

\* environment_needs_upgrade: if self.required
UpgradeVerifies(req) == req

\* The verifications of environment_needs_upgrade, in order, up to the first
\* that raises
UpgradeChecks(srv) ==
    IF _verify_table_status(srv) # "none"
    THEN <<[ev |-> "verify_table_status",
            raised |-> _verify_table_status(srv)]>>
    ELSE <<[ev |-> "verify_table_status", raised |-> "none"],
           [ev |-> "verify_variables", raised |-> _verify_variables(srv)]>>

\* MySQLConnector.environment_needs_upgrade
EnvironmentNeedsUpgrade ==
    /\ nOps < MaxOps
    /\ nOps' = nOps + 1
    /\ events' = (IF UpgradeVerifies(required) THEN UpgradeChecks(server)
                                               ELSE <<>>)
    /\ opResult' = IF RaisedBy(events') # "none"
                   THEN [op |-> "environment_needs_upgrade",
                         raised |-> RaisedBy(events')]
                   ELSE [op |-> "environment_needs_upgrade",
                         raised |-> "none", value |-> FALSE]
    /\ UNCHANGED <<db_prop, server, environ, required, sessions, conn,
                   pureVars, ddlVars, connVars, config>>

\* ------------------------------------------------ the servers of the model
\* A mapping with no entry
Empty == <<>>

\* What the server reports of its default engine: as default_storage_engine,
\* as storage_engine (older servers), or as both
EngineVariables ==
    {"default_storage_engine" :> "InnoDB",
     "default_storage_engine" :> "MyISAM",
     "storage_engine" :> "InnoDB",
     "storage_engine" :> "MyISAM",
     ("default_storage_engine" :> "InnoDB") @@ ("storage_engine" :> "MyISAM")}

\* What it reports of the engine of its temporary tables, if anything
TmpEngineVariables ==
    {Empty, "default_tmp_storage_engine" :> "InnoDB",
     "default_tmp_storage_engine" :> "MyISAM"}

\* The charset and collation of the database
CharsetVariables ==
    {("character_set_database" :> p[1]) @@ ("collation_database" :> p[2]) :
        p \in {<<"utf8mb4", "utf8mb4_bin">>, <<"utf8mb3", "utf8_bin">>,
               <<"utf8", "utf8_bin">>, <<"utf8", "utf8_general_ci">>,
               <<"utf8mb4", "utf8_bin">>}}

\* The rows SHOW TABLE STATUS may hold for a table that exists
TableStatuses ==
    NewTableStatuses
    \cup {[Engine |-> "InnoDB", Collation |-> <<"utf8mb4_bin">>],
          [Engine |-> "InnoDB", Collation |-> None]}

\* The connection URI of the environment
Props(ps) ==
    [path |-> <<"/", "t">>, user |-> <<"u">>, password |-> <<"pw">>,
     host |-> <<"h">>, port |-> None, params |-> ps]

\* A connector not yet used, on the given server
ConnectorInit(ps, variables, tables) ==
    /\ db_prop = Props(ps)
    /\ server = [variables |-> variables, tables |-> tables]
    /\ environ = <<>>
    /\ required = FALSE
    /\ sessions = <<>>
    /\ conn = None
    /\ events = <<>>
    /\ opResult = [op |-> "none", raised |-> "none"]
    /\ nOps = 0
    /\ config = <<>>

\* A database that is empty, holds another application's table, or holds a
\* table of the application created by an earlier attempt
SetupTables ==
    {Empty,
     <<"o">> :> [Engine |-> "InnoDB", Collation |-> <<"utf8_bin">>],
     <<"t">> :> [Engine |-> "MyISAM", Collation |-> <<"utf8_bin">>]}

SetupInit ==
    /\ \E ps \in {<<>>, <<<<"compress", "1">>>>, <<<<"bogus", "x">>>>} :
       \E e \in {"InnoDB", "MyISAM"} :
       \E cv \in CharsetVariables :
       \E tables \in SetupTables :
          ConnectorInit(ps, ("default_storage_engine" :> e) @@ cv, tables)
    /\ PureIdle /\ DDLIdle /\ ConnInit

SetupNext == InitDb \/ DestroyDb \/ DbExists

SpecSetup == SetupInit /\ [][SetupNext]_vars

\* The tables an environment may find: each table of the application absent
\* or in any status, a plugin's table absent or on a non-transactional engine
UpgradeTables ==
    {t @@ u @@ c :
        t \in {Empty} \cup {<<"t">> :> st : st \in TableStatuses},
        u \in {Empty} \cup {<<"u">> :> st : st \in TableStatuses},
        c \in {Empty,
               <<"c">> :> [Engine |-> "MyISAM", Collation |-> <<"utf8_bin">>]}}

UpgradeInit ==
    /\ \E ev \in EngineVariables : \E tv \in TmpEngineVariables :
       \E cv \in CharsetVariables : \E tables \in UpgradeTables :
          ConnectorInit(<<>>, ev @@ tv @@ cv, tables)
    /\ PureIdle /\ DDLIdle /\ ConnInit

UpgradeNext == GetConnection \/ EnvironmentNeedsUpgrade

SpecUpgrade == UpgradeInit /\ [][UpgradeNext]_vars

\* ------------------------------------------------------------------ backup
RECURSIVE Basename(_)
\* os.path.basename(path): what follows the last '/'
Basename(path) ==
    IF path = <<>> THEN <<>>
    ELSE IF path[Len(path)] = "/" THEN <<>>
    ELSE Append(Basename(SubSeq(path, 1, Len(path) - 1)), path[Len(path)])

\* str(port), on the ports of the model
str_int(n) ==
    CASE n = 3306 -> "3306"
      [] n = 3307 -> "3307"
      [] n = 0 -> "0"
      [] n = 1 -> "1"
      [] n = 2 -> "2"
      [] n = 3 -> "3"
      [] n = 4 -> "4"
      [] n = 5 -> "5"

\* An element of argv is the string its parts concatenate to
Arg(parts) == parts

\* Mutant of InsertDefaultsFile: the flag is appended like the others
InsertDefaultsFile_Appended(argv, value) ==
    Append(argv, Arg(<<"--defaults-file=", value>>))

\* args.insert(1, '--defaults-file=' + value)
InsertDefaultsFile(argv, value) ==
    <<argv[1], Arg(<<"--defaults-file=", value>>)>> \o Tail(argv)

RECURSIVE BackupLoop(_, _, _)
\* for name, value in db_params.items(): ...  gives argv and the warnings
\* logged
BackupLoop(params, argv, logged) ==
    IF params = <<>> THEN [args |-> argv, logged |-> logged]
    ELSE LET name  == Head(params)[1]
             value == Head(params)[2]
             rest  == Tail(params)
         IN  IF name = "compress" /\ as_int(value, 0) # 0
             THEN BackupLoop(rest, Append(argv, Arg(<<"--compress">>)), logged)
             ELSE IF name = "named_pipe" /\ as_int(value, 0) # 0
             THEN BackupLoop(rest, Append(argv, Arg(<<"--protocol=pipe">>)),
                             logged)
             ELSE IF name = "read_default_file"
             THEN BackupLoop(rest, InsertDefaultsFile(argv, value), logged)
             ELSE IF name = "unix_socket"
             THEN BackupLoop(rest,
                             argv \o <<Arg(<<"--protocol=socket">>),
                                       Arg(<<"--socket=", value>>)>>,
                             logged)
             ELSE IF name \notin {"init_command", "read_default_group"}
             THEN BackupLoop(rest, argv, Append(logged, <<name>>))
             ELSE BackupLoop(rest, argv, logged)

\* [trac] mysqldump_path, at its default
mysqldump_path == Arg(<<"mysqldump">>)

\* Mutant of BackupBase: the password is passed as a flag, like the user
BackupBase_PasswordFlag(prop) ==
    <<mysqldump_path, Arg(<<"--no-defaults">>)>>
    \o (IF prop.host # None
        THEN <<Arg(<<"-h">>), Arg(<<prop.host[1]>>)>> ELSE <<>>)
    \o (IF prop.port # None
        THEN <<Arg(<<"-P">>), Arg(<<str_int(prop.port[1])>>)>> ELSE <<>>)
    \o (IF prop.user # None
        THEN <<Arg(<<"-u">>), Arg(<<prop.user[1]>>)>> ELSE <<>>)
    \o (IF prop.password # None
        THEN <<Arg(<<"-p", prop.password[1]>>)>> ELSE <<>>)

\* args = [self.mysqldump_path, '--no-defaults'], extended with the host,
\* port and user flags
BackupBase(prop) ==
    <<mysqldump_path, Arg(<<"--no-defaults">>)>>
    \o (IF prop.host # None
        THEN <<Arg(<<"-h">>), Arg(<<prop.host[1]>>)>> ELSE <<>>)
    \o (IF prop.port # None
        THEN <<Arg(<<"-P">>), Arg(<<str_int(prop.port[1])>>)>> ELSE <<>>)
    \o (IF prop.user # None
        THEN <<Arg(<<"-u">>), Arg(<<prop.user[1]>>)>> ELSE <<>>)

\* The argument list backup builds
BackupArgs(prop, dest_file) ==
    BackupLoop(prop.params, BackupBase(prop), <<>>).args
    \o <<Arg(<<"-r">>), Arg(<<dest_file>>), Arg(Basename(prop.path))>>

\* The warnings backup logs on the way
BackupWarnings(prop) ==
    LET logged == BackupLoop(prop.params, <<mysqldump_path>>, <<>>).logged
    IN  [i \in 1..Len(logged) |-> [ev |-> "log.warning", args |-> logged[i]]]

\* environ = os.environ.copy(); if 'password' in db_prop:
\* environ['MYSQL_PWD'] = str(db_prop['password'])
ChildEnviron(env, prop) ==
    IF prop.password # None THEN SetItem(env, "MYSQL_PWD", prop.password[1])
    ELSE env

\* os.environ after backup: the child's environment is built on a copy
ParentEnviron(env, prop) == env

\* Popen(args, env=environ, ...), communicate() and os.path.exists: the
\* launch fails, or the utility exits with a status and the destination file
\* exists afterwards or not
ChildOutcomes ==
    {[launched |-> FALSE, returncode |-> 1, exists |-> FALSE,
      stderr |-> <<>>]}
    \cup [launched : {TRUE}, returncode : {0, 1}, exists : BOOLEAN,
          stderr : {<<>>, <<" ", "e", " ">>}]

RECURSIVE str_strip(_)
\* errmsg.strip(), on text whose only whitespace is the space
str_strip(s) ==
    IF s = <<>> THEN s
    ELSE IF Head(s) = " " THEN str_strip(Tail(s))
    ELSE IF s[Len(s)] = " " THEN str_strip(SubSeq(s, 1, Len(s) - 1))
    ELSE s

\* Mutant of BackupRaises: the destination file is looked for before the
\* exit status
BackupRaises_FileFirst(o) ==
    IF ~o.launched THEN "TracError: Unable to run"
    ELSE IF ~o.exists THEN "TracError: No destination file created"
    ELSE IF o.returncode # 0 THEN "TracError: mysqldump failed"
    ELSE "none"

\* backup after Popen: the three checks
BackupRaises(o) ==
    IF ~o.launched THEN "TracError: Unable to run"
    ELSE IF o.returncode # 0 THEN "TracError: mysqldump failed"
    ELSE IF ~o.exists THEN "TracError: No destination file created"
    ELSE "none"

\* MySQLConnector.backup
Backup ==
    /\ nOps < MaxOps
    /\ nOps' = nOps + 1
    /\ \E dest_file \in {"d"} : \E o \in ChildOutcomes :
          /\ events' = BackupWarnings(db_prop)
                \o <<[ev |-> "Popen", args |-> BackupArgs(db_prop, dest_file),
                      env |-> ChildEnviron(environ, db_prop),
                      outcome |-> o]>>
          /\ opResult' = IF BackupRaises(o) # "none"
                         THEN [op |-> "backup", raised |-> BackupRaises(o),
                               msg |-> IF BackupRaises(o)
                                          = "TracError: mysqldump failed"
                                       THEN str_strip(o.stderr)
                                       ELSE <<>>]
                         ELSE [op |-> "backup", raised |-> "none",
                               value |-> dest_file]
    /\ environ' = ParentEnviron(environ, db_prop)
    /\ UNCHANGED <<db_prop, server, required, sessions, conn, pureVars,
                   ddlVars, connVars, config>>

\* The environments the process may run in
Environs ==
    {"PATH" :> "p", ("PATH" :> "p") @@ ("MYSQL_PWD" :> "old")}

\* The passwords of the model
Passwords == {None, <<"pw">>}

BackupInit ==
    /\ \E ps \in ParamLists(MaxParams) :
       \E given \in {{}, {"host"}, {"host", "port", "user"}} :
       \E pw \in Passwords :
          db_prop = [path |-> <<"/", "t">>,
                     user |-> IF "user" \in given THEN <<"u">> ELSE None,
                     password |-> pw,
                     host |-> IF "host" \in given THEN <<"h">> ELSE None,
                     port |-> IF "port" \in given THEN <<3307>> ELSE None,
                     params |-> ps]
    /\ environ \in Environs
    /\ server = <<>>
    /\ required = FALSE
    /\ sessions = <<>>
    /\ conn = None
    /\ events = <<>>
    /\ opResult = [op |-> "none", raised |-> "none"]
    /\ nOps = 0
    /\ config = <<>>
    /\ PureIdle /\ DDLIdle /\ ConnInit

BackupNext == Backup

SpecBackup == BackupInit /\ [][BackupNext]_vars

\* ======================================================================
\* MySQLConnection.drop_column and reset_tables.  Here the server holds
\* the tables of the bound schema in the order information_schema reports
\* them: name, columns (in ordinal position), the rows of SHOW INDEX
\* (Key_name, Column_name), the auto-increment column if any, and the
\* number of rows and the next auto-increment value.  The server accepts
\* every statement.
\* ======================================================================

RECURSIVE IndexKeys(_)
\* drop_column: keys.setdefault(row['Key_name'], [])
\*                  .append(row['Column_name']), in dict order
IndexKeys(rows) ==
    IF rows = <<>> THEN <<>>
    ELSE LET keys == IndexKeys(SubSeq(rows, 1, Len(rows) - 1))
             row  == rows[Len(rows)]
             at   == {i \in 1..Len(keys) : keys[i].key = row.Key_name}
         IN  IF at = {}
             THEN Append(keys, [key |-> row.Key_name,
                                columns |-> <<row.Column_name>>])
             ELSE [i \in 1..Len(keys) |->
                     IF i \in at
                     THEN [keys[i] EXCEPT
                             !.columns = Append(@, row.Column_name)]
                     ELSE keys[i]]

\* Mutant of DropsIndex: every index containing the column is dropped
DropsIndex_Simple(columns, column) ==
    \E i \in 1..Len(columns) : columns[i] = column

\* drop_column: if len(columns) > 1 and column in columns
DropsIndex(columns, column) ==
    /\ Len(columns) > 1
    /\ \E i \in 1..Len(columns) : columns[i] = column

\* The PRIMARY key name of SHOW INDEX
PRIMARY == <<"P", "R", "I", "M", "A", "R", "Y">>

\* drop_column: the ALTER TABLE ... DROP [PRIMARY] KEY statement of an index
DropKeyStmt(quoted_table, key) ==
    IF key = PRIMARY
    THEN <<"ALTER TABLE ">> \o quoted_table \o <<" DROP PRIMARY KEY">>
    ELSE <<"ALTER TABLE ">> \o quoted_table \o <<" DROP KEY ">>
            \o quote(key)

\* MySQLConnection.drop_column(table, column)
DropColumn ==
    /\ nOps < MaxOps
    /\ nOps' = nOps + 1
    /\ \E table \in {<<"a">>, <<"b">>, <<"c">>} :
       \E column \in {<<"x">>, <<"y">>, <<"w">>} :
          /\ opResult' = [op |-> "drop_column", raised |-> "none",
                          table |-> table, column |-> column]
          /\ LET self_schema == conn[1].schema
                 at == IF self_schema = <<>> THEN {}
                       ELSE {i \in 1..Len(server.tables) :
                                server.tables[i].name = table}
                 \* get_column_names(table)
                 names == IF at = {} THEN <<>>
                          ELSE server.tables[CHOOSE i \in at : TRUE].columns
                 select == [ev |-> "execute",
                            stmt |-> <<"SELECT column_name FROM information_schema.columns">>,
                            args |-> <<self_schema, table>>, result |-> "ok"]
             IN  IF \A i \in 1..Len(names) : names[i] # column
                 THEN /\ events' = <<select>>
                      /\ server' = server
                 ELSE LET t == CHOOSE i \in at : TRUE
                          quoted_table == quote(table)
                          keys == IndexKeys(server.tables[t].index)
                          drops == SelectSeq(keys,
                                     LAMBDA k : DropsIndex(k.columns, column))
                          dropped == {drops[i].key : i \in 1..Len(drops)}
                      IN  /\ events' =
                               <<select,
                                 Executed(<<"SHOW INDEX FROM ">>
                                             \o quoted_table, "ok")>>
                               \o [i \in 1..Len(drops) |->
                                     Executed(DropKeyStmt(quoted_table,
                                                          drops[i].key), "ok")]
                               \o <<Executed(<<"ALTER TABLE ">> \o quoted_table
                                               \o <<" DROP COLUMN ">>
                                               \o quote(column) \o <<" ">>,
                                             "ok")>>
                          /\ server' =
                               [server EXCEPT !.tables[t] =
                                  [@ EXCEPT
                                     !.columns = SelectSeq(@,
                                                   LAMBDA c : c # column),
                                     !.index = SelectSeq(@,
                                        LAMBDA r : /\ r.Key_name \notin dropped
                                                   /\ r.Column_name # column),
                                     !.autoinc = IF @ = <<column>> THEN None
                                                 ELSE @]]
    /\ UNCHANGED <<db_prop, environ, required, sessions, conn, config,
                   pureVars, ddlVars, connVars>>

\* Mutant of ResetStatement: TRUNCATE TABLE for every table
ResetStatement_Truncate(has_autoinc, quoted) == <<"TRUNCATE TABLE ">> \o quoted

\* reset_tables: the statement emptying one table
ResetStatement(has_autoinc, quoted) ==
    IF ~has_autoinc THEN <<"DELETE FROM ">> \o quoted
    ELSE <<"TRUNCATE TABLE ">> \o quoted

\* MySQLConnection.reset_tables()
ResetTables ==
    /\ nOps < MaxOps
    /\ nOps' = nOps + 1
    /\ LET self_schema == conn[1].schema
           fetchall == [i \in 1..Len(server.tables) |->
                          <<server.tables[i].name,
                            server.tables[i].autoinc # None>>]
       IN  IF self_schema = <<>>
           THEN /\ events' = <<>>
                /\ server' = server
                /\ opResult' = [op |-> "reset_tables", raised |-> "none",
                                value |-> <<>>]
           ELSE /\ events' =
                     <<[ev |-> "execute",
                        stmt |-> <<"SELECT t.table_name, EXISTS (auto_increment) FROM information_schema.tables">>,
                        args |-> <<self_schema>>, result |-> "ok"]>>
                     \o [i \in 1..Len(fetchall) |->
                           Executed(ResetStatement(fetchall[i][2],
                                                   quote(fetchall[i][1])),
                                    "ok")]
                \* DELETE FROM empties the table; TRUNCATE TABLE also
                \* resets its auto-increment counter
                /\ server' =
                     [server EXCEPT !.tables =
                        [i \in 1..Len(fetchall) |->
                           IF Head(ResetStatement(fetchall[i][2], <<>>))
                                 = "TRUNCATE TABLE "
                           THEN [server.tables[i] EXCEPT
                                   !.rows = 0, !.next_id = 1]
                           ELSE [server.tables[i] EXCEPT !.rows = 0]]]
                /\ opResult' = [op |-> "reset_tables", raised |-> "none",
                                value |-> [i \in 1..Len(fetchall) |->
                                             fetchall[i][1]]]
    /\ UNCHANGED <<db_prop, environ, required, sessions, conn, config,
                   pureVars, ddlVars, connVars>>

\* A MySQLConnection bound to schema 'trac' or to no schema, on a database
\* of up to two tables: 'a' with columns x, y, z, optionally the
\* auto-increment key z or a simple or composite primary key, and secondary
\* indices; 'b' with columns x, y and no index
WrapperInit ==
    /\ \E path \in {<<>>, <<"t", "r", "a", "c">>} :
          conn = <<[charset |-> <<"utf8">>, schema |-> path, cnx |-> 1]>>
    /\ \E autoinc \in {None, <<<<"z">>>>} :
       \E pk \in {<<>>, <<<<"x">>>>, <<<<"x">>, <<"y">>>>} :
       \E idx \in {<<>>,
                   <<[Key_name |-> <<"k">>, Column_name |-> <<"y">>],
                     [Key_name |-> <<"k">>, Column_name |-> <<"z">>]>>,
                   <<[Key_name |-> <<"k">>, Column_name |-> <<"x">>],
                     [Key_name |-> <<"j">>, Column_name |-> <<"y">>],
                     [Key_name |-> <<"k">>, Column_name |-> <<"y">>]>>} :
       \E rows \in {0, 2} :
       \E order \in {<<>>, <<1>>, <<1, 2>>, <<2, 1>>} :
          LET primary == IF autoinc # None THEN autoinc ELSE pk
              a == [name |-> <<"a">>,
                    columns |-> <<<<"x">>, <<"y">>, <<"z">>>>,
                    index |-> [i \in 1..Len(primary) |->
                                 [Key_name |-> PRIMARY,
                                  Column_name |-> primary[i]]] \o idx,
                    autoinc |-> autoinc,
                    rows |-> rows, next_id |-> rows + 1]
              b == [name |-> <<"b">>,
                    columns |-> <<<<"x">>, <<"y">>>>,
                    index |-> <<>>, autoinc |-> None,
                    rows |-> 1, next_id |-> 1]
          IN  server = [variables |-> <<>>,
                        tables |-> [i \in 1..Len(order) |->
                                      IF order[i] = 1 THEN a ELSE b]]
    /\ db_prop = <<>> /\ environ = <<>> /\ required = FALSE
    /\ sessions = <<Session(<<"utf8">>)>>
    /\ events = <<>>
    /\ opResult = [op |-> "none", raised |-> "none"]
    /\ nOps = 0
    /\ config = <<>>
    /\ PureIdle /\ DDLIdle /\ ConnInit

SpecWrapper == WrapperInit /\ [][DropColumn \/ ResetTables]_vars

\* ======================================================================
\* The enum admin panel and the enum 'order' command (trac/ticket/admin.py).
\* Here the server holds the enum table of the panel's type, name -> value
\* (the ordering number, stored as text), and config holds the option
\* [ticket] default_<type>: its value in memory and in trac.ini.
\* ======================================================================

\* int(float(enum.value)), on the text of a small number
int_float(value) ==
    CASE value = "0" -> 0
      [] value = "1" -> 1
      [] value = "2" -> 2
      [] value = "3" -> 3
      [] value = "4" -> 4
      [] value = "5" -> 5

RECURSIVE select(_)
\* self._enum_cls.select(self.env): the names of the enums, ordered by
\* number (equal numbers in an order the database chooses)
select(rows) ==
    IF DOMAIN rows = {} THEN <<>>
    ELSE LET first == CHOOSE n \in DOMAIN rows :
                         \A o \in DOMAIN rows :
                            int_float(rows[n]) <= int_float(rows[o])
         IN  <<first>> \o select([n \in DOMAIN rows \ {first} |-> rows[n]])

\* _render_admin_panel, 'apply': the default is set and saved, then the
\* submitted order numbers are checked, then the enums are updated in one
\* transaction.  The form submits value_<number> for every enum listed.
EnumApply ==
    /\ nOps < MaxOps
    /\ nOps' = nOps + 1
    /\ \E name \in {None, <<"a">>, <<"b">>} :
       \E numbers \in [DOMAIN server.enum -> 1..(MaxEnums + 1)] :
       \E saved \in BOOLEAN :
          LET default == config.value
              sets  == name # None /\ name[1] # default
              order == [v \in {server.enum[n] : n \in DOMAIN server.enum} |->
                          str_int(numbers[CHOOSE n \in DOMAIN server.enum :
                                             server.enum[n] = v])]
              values == {order[v] : v \in DOMAIN order}
              unique == Cardinality(DOMAIN order) = Cardinality(values)
              enums == select(server.enum)
              updated == SelectSeq(enums,
                            LAMBDA e : order[server.enum[e]] # server.enum[e])
              setting == IF sets
                         THEN <<[ev |-> "config.set", value |-> name[1]],
                                [ev |-> "config.save", saved |-> saved]>>
                         ELSE <<>>
          IN  /\ sets \/ saved
              /\ config' = IF sets
                           THEN [value |-> name[1],
                                 file  |-> IF saved THEN name[1]
                                           ELSE config.file]
                           ELSE config
              /\ events' = setting \o
                   (IF ~unique THEN <<>>
                    ELSE <<[ev |-> "begin"]>>
                         \o [i \in 1..Len(updated) |->
                               [ev |-> "update", name |-> updated[i],
                                value |-> order[server.enum[updated[i]]]]]
                         \o <<[ev |-> "commit"]>>)
              /\ server' = IF ~unique THEN server
                           ELSE [server EXCEPT !.enum =
                                   [n \in DOMAIN server.enum |->
                                      order[server.enum[n]]]]
              /\ opResult' =
                   [op |-> "apply",
                    raised |-> IF unique THEN "none"
                               ELSE "TracError: Order numbers must be unique",
                    default |-> name,
                    numbers |-> numbers]
    /\ UNCHANGED <<db_prop, environ, required, sessions, conn,
                   pureVars, ddlVars, connVars>>

\* Mutant of direction: every move is a move down
direction_Down(up_down) == 1

\* _do_order: direction = -1 if up_down == 'up' else 1
direction(up_down) == IF up_down = "up" THEN -1 ELSE 1

\* _do_order(name, up_down), for the name of an existing enum
DoOrder ==
    /\ nOps < MaxOps
    /\ nOps' = nOps + 1
    /\ \E name \in DOMAIN server.enum :
       \E up_down \in {"up", "down", "top"} :
          LET enum1_value == int_float(server.enum[name]) + direction(up_down)
              enums == select(server.enum)
              found == SelectSeq(enums,
                          LAMBDA e : int_float(server.enum[e]) = enum1_value)
              enum2 == Head(found)
              enum2_value == int_float(server.enum[enum2])
                                - direction(up_down)
          IN  /\ opResult' =
                   [op |-> "order",
                    raised |-> IF up_down \in {"up", "down"} THEN "none"
                               ELSE "AdminCommandError",
                    name |-> name, up_down |-> up_down]
              /\ IF up_down \notin {"up", "down"} \/ found = <<>>
                 THEN /\ events' = <<>>
                      /\ server' = server
                 ELSE /\ events' =
                           <<[ev |-> "begin"],
                             [ev |-> "update", name |-> name,
                              value |-> str_int(enum1_value)],
                             [ev |-> "update", name |-> enum2,
                              value |-> str_int(enum2_value)],
                             [ev |-> "commit"]>>
                      /\ server' =
                           [server EXCEPT
                              !.enum = (enum2 :> str_int(enum2_value))
                                       @@ (name :> str_int(enum1_value))
                                       @@ @]
    /\ UNCHANGED <<db_prop, environ, required, sessions, conn, config,
                   pureVars, ddlVars, connVars>>

\* Up to MaxEnums enums with pairwise distinct numbers, possibly with gaps,
\* and a default that is unset or names one of them
EnumInit ==
    /\ \E n \in 1..MaxEnums :
       \E numbers \in [1..n -> 1..(MaxEnums + 1)] :
          /\ \A i, j \in 1..n : numbers[i] = numbers[j] => i = j
          /\ server = [enum |-> [e \in {<<"a", "b", "c", "d">>[i] : i \in 1..n}
                                   |-> str_int(numbers[
                                         CHOOSE i \in 1..n :
                                            <<"a", "b", "c", "d">>[i] = e])]]
    /\ \E default \in {"", "a"} : config = [value |-> default, file |-> default]
    /\ db_prop = <<>> /\ environ = <<>> /\ required = FALSE
    /\ sessions = <<>> /\ conn = None
    /\ events = <<>>
    /\ opResult = [op |-> "none", raised |-> "none"]
    /\ nOps = 0
    /\ PureIdle /\ DDLIdle /\ ConnInit

SpecEnum == EnumInit /\ [][EnumApply \/ DoOrder]_vars

\* ======================================================================
\* The version-46 migration (trac/upgrades/db46.py).  Here the server holds
\* the rows of each table, and a Python value passed to the cursor carries
\* its type: a str or a list.
\* ======================================================================

\* db46.sql: a list of four statements
sql ==
    [type |-> "list",
     value |->
       <<[type |-> "str",
          value |-> "CREATE TEMPORARY TABLE milestone_old AS SELECT * FROM milestone;"],
         [type |-> "str", value |-> "DROP TABLE milestone;"],
         [type |-> "str",
          value |-> "CREATE TABLE milestone (name text, due integer, started integer, completed integer, description text, PRIMARY KEY(name));"],
         [type |-> "str",
          value |-> "INSERT INTO milestone(name,due,started,completed,description) SELECT name,due,0,completed,description FROM milestone_old;"]>>]

\* The server running one statement of db46.sql on its tables
ExecuteStatement(stmt, tables) ==
    CASE stmt = sql.value[1].value ->
            ("milestone_old" :> tables["milestone"]) @@ tables
      [] stmt = sql.value[2].value ->
            [t \in DOMAIN tables \ {"milestone"} |-> tables[t]]
      [] stmt = sql.value[3].value ->
            ("milestone" :> {}) @@ tables
      [] stmt = sql.value[4].value ->
            ("milestone" :>
                (tables["milestone"] \cup
                 {[name |-> r.name, due |-> r.due, started |-> 0,
                   completed |-> r.completed,
                   description |-> r.description] :
                     r \in tables["milestone_old"]})) @@ tables

\* cursor.execute(query): the driver runs a str as one statement and
\* raises TypeError, before anything is sent, for any other value
CursorExecute(query, tables) ==
    IF query.type = "str"
    THEN [raised |-> "none", tables |-> ExecuteStatement(query.value, tables)]
    ELSE [raised |-> "TypeError", tables |-> tables]

\* do_upgrade(env, ver, cursor): cursor.execute(sql)
DoUpgrade ==
    /\ nOps < MaxOps
    /\ nOps' = nOps + 1
    /\ LET r == CursorExecute(sql, server.tables)
       IN  /\ events' = <<[ev |-> "execute", query |-> sql,
                           raised |-> r.raised]>>
           /\ server' = [server EXCEPT !.tables = r.tables]
           /\ opResult' = [op |-> "do_upgrade", raised |-> r.raised]
    /\ UNCHANGED <<db_prop, environ, required, sessions, conn, config,
                   pureVars, ddlVars, connVars>>

\* A version-45 database: up to two milestones, without the started column
Db46Init ==
    /\ \E names \in SUBSET {"m1", "m2"} :
       \E due, completed \in [names -> {0, 7}] :
       \E description \in [names -> {"", "d"}] :
          server = [tables |->
                      [t \in {"milestone"} |->
                         {[name |-> n, due |-> due[n],
                           completed |-> completed[n],
                           description |-> description[n]] : n \in names}]]
    /\ db_prop = <<>> /\ environ = <<>> /\ required = FALSE
    /\ sessions = <<>> /\ conn = None
    /\ events = <<>>
    /\ opResult = [op |-> "none", raised |-> "none"]
    /\ nOps = 0
    /\ config = <<>>
    /\ PureIdle /\ DDLIdle /\ ConnInit

SpecDb46 == Db46Init /\ [][DoUpgrade]_vars

\* ======================================================================
\* Claims about the DDL compiler, checked under SpecDDL
\* ======================================================================
Range(f) == {f[i] : i \in DOMAIN f}

RECURSIVE UnderscoreJoined(_)
\* The names of a non-empty list, each but the first preceded by '_'
UnderscoreJoined(names) ==
    IF Len(names) = 1 THEN names[1]
    ELSE UnderscoreJoined(SubSeq(names, 1, Len(names) - 1))
         \o <<"_">> \o names[Len(names)]

\* The positions of the PRIMARY KEY clauses among the definitions of a
\* CREATE TABLE
PrimaryKeyClauses(coldefs) ==
    {i \in 1..Len(coldefs) : coldefs[i].clause = "PRIMARY KEY"}

\* The positions of the auto-increment column definitions of a CREATE TABLE
AutoIncrementDefs(coldefs) ==
    {i \in 1..Len(coldefs) :
        /\ coldefs[i].clause = "COLUMN"
        /\ coldefs[i].ctype = "INT UNSIGNED NOT NULL AUTO_INCREMENT"}

\* The positions of the columns flagged auto_increment
AutoIncrementColumns(columns) ==
    {i \in 1..Len(columns) : columns[i].auto_increment}

\* C1: every to_sql call yields 1 + len(table.indices) statements: one
\* CREATE TABLE for the table first, then one CREATE INDEX per declared index
\* in declaration order, named '{table}_{columns joined by _}_idx' and
\* UNIQUE exactly when the index is unique; the CREATE TABLE has a PRIMARY
\* KEY clause iff table.key is non-empty.
C1_StatementSequence ==
    \A e \in Range(out) :
        LET t == declared[e.t]
            s == e.stmts
        IN  /\ Len(s) = 1 + Len(t.indices)
            /\ s[1].kind = "CREATE TABLE"
            /\ s[1].table = <<BACKTICK>> \o t.name \o <<BACKTICK>>
            /\ \A i \in 1..Len(t.indices) :
                  /\ s[i + 1].kind = "CREATE INDEX"
                  /\ s[i + 1].table = s[1].table
                  /\ s[i + 1].name =
                        <<BACKTICK>> \o t.name \o <<"_">>
                        \o UnderscoreJoined(t.indices[i].columns)
                        \o <<"_", "i", "d", "x", BACKTICK>>
                  /\ (s[i + 1].unique = "UNIQUE") <=> t.indices[i].unique
                  /\ s[i + 1].unique \in {"UNIQUE", ""}
            /\ (PrimaryKeyClauses(s[1].coldefs) # {}) <=> (Len(t.key) > 0)

\* C1 witness: a table with a key and two different indices, one of them
\* unique and on two columns, has been compiled.
C1_Witness ==
    \E e \in Range(out) :
        LET t == declared[e.t]
        IN  /\ Len(t.key) > 0
            /\ Len(t.indices) = 2
            /\ t.indices[1].unique /\ ~t.indices[2].unique
            /\ Len(t.indices[1].columns) = 2
            /\ Len(e.stmts) = 3

\* C2 as stated: a table with an auto-increment column compiles to a CREATE
\* TABLE with exactly one auto-increment column definition, however many
\* columns are flagged, and that column's type is 'int' afterwards.
C2_ExactlyOneAutoIncrement ==
    \A e \in Range(out) :
        LET t == declared[e.t]
        IN  AutoIncrementColumns(t.columns) # {} =>
               /\ Cardinality(AutoIncrementDefs(e.stmts[1].coldefs)) = 1
               /\ \A i \in AutoIncrementColumns(t.columns) :
                     schema[e.t].columns[i].type = "int"

\* C2 amended: the CREATE TABLE has one auto-increment column definition for
\* each column flagged auto_increment, at that column's position (so exactly
\* one when exactly one column is flagged), and every flagged column's type
\* is 'int' after the compilation; the other columns keep their type.
C2_OneAutoIncrementPerFlaggedColumn ==
    \A e \in Range(out) :
        LET t == declared[e.t]
        IN  /\ AutoIncrementDefs(e.stmts[1].coldefs)
                  = AutoIncrementColumns(t.columns)
            /\ \A i \in 1..Len(t.columns) :
                  schema[e.t].columns[i].type =
                     IF t.columns[i].auto_increment THEN "int" ELSE t.columns[i].type

\* C2 witness: a table whose only auto-increment column was declared 'text'
\* has been compiled.
C2_Witness ==
    \E e \in Range(out) :
        LET t == declared[e.t]
        IN  /\ Cardinality(AutoIncrementColumns(t.columns)) = 1
            /\ \E i \in 1..Len(t.columns) :
                  /\ t.columns[i].auto_increment
                  /\ t.columns[i].type = "text"
                  /\ schema[e.t].columns[i].type = "int"
                  /\ e.stmts[1].coldefs[i].ctype = AUTO_INCREMENT_TYPE

\* C3: to_sql is idempotent and order independent: two compilations of the
\* same table object yield the same statements although the first rewrote
\* the object, and each compilation yields what compiling the table as
\* declared yields, whatever was compiled before it.
C3_Idempotent ==
    /\ \A e1, e2 \in Range(out) : e1.t = e2.t => e1.stmts = e2.stmts
    /\ \A e \in Range(out) : e.stmts = to_sql(declared[e.t], max_bytes)

\* C3 witness: the other table was compiled first, then twice a table whose
\* key holds an auto-increment column declared 'text', which the first of
\* the two compilations rewrote.
C3_Witness ==
    /\ Len(out) = 3
    /\ out[1].t = 2 /\ out[2].t = 1 /\ out[3].t = 1
    /\ schema[1] # declared[1]
    /\ \E i \in 1..Len(declared[1].columns) :
          /\ declared[1].columns[i].auto_increment
          /\ declared[1].columns[i].type = "text"
          /\ declared[1].columns[i].name \in Range(declared[1].key)

\* The column lists a compilation emitted, each with the names it was built
\* from: the PRIMARY KEY clause and every CREATE INDEX
ColumnListsOf(e) ==
    {[names |-> declared[e.t].key, cols |-> e.stmts[1].coldefs[i].cols] :
        i \in PrimaryKeyClauses(e.stmts[1].coldefs)}
    \cup {[names |-> declared[e.t].indices[i].columns,
           cols  |-> e.stmts[i + 1].cols] :
             i \in 1..Len(declared[e.t].indices)}

\* C26: to_sql emits no prefix length for an auto-increment column in the
\* PRIMARY KEY clause or in a CREATE INDEX column list, even when the column
\* was declared 'text'; the only change it makes to the Schema Model is
\* setting type to 'int' on the auto-increment columns of the compiled table.
C26_AutoIncrementUnprefixed ==
    /\ \A e \in Range(out) : \A l \in ColumnListsOf(e) :
          \A j \in 1..Len(l.names) :
             (\E i \in AutoIncrementColumns(declared[e.t].columns) :
                 declared[e.t].columns[i].name = l.names[j])
             => l.cols[j].len = None
    /\ Len(schema) = Len(declared)
    /\ \A t \in 1..Len(declared) :
          IF \E e \in Range(out) : e.t = t
          THEN /\ schema[t].name = declared[t].name
               /\ schema[t].key = declared[t].key
               /\ schema[t].indices = declared[t].indices
               /\ Len(schema[t].columns) = Len(declared[t].columns)
               /\ \A i \in 1..Len(declared[t].columns) :
                     schema[t].columns[i] =
                        [name |-> declared[t].columns[i].name,
                         type |-> IF declared[t].columns[i].auto_increment
                                  THEN "int"
                                  ELSE declared[t].columns[i].type,
                         key_size |-> declared[t].columns[i].key_size,
                         auto_increment |->
                            declared[t].columns[i].auto_increment]
          ELSE schema[t] = declared[t]

\* C26 witness: a table whose first column is auto-increment and declared
\* 'text' and whose second column is text was compiled with both columns
\* in the key and in a unique index: the first has no prefix length in
\* either list, the second has one.
C26_Witness ==
    \E e \in Range(out) :
        LET t == declared[e.t]
        IN  /\ Len(t.columns) = 2
            /\ t.columns[1].auto_increment /\ t.columns[1].type = "text"
            /\ ~t.columns[2].auto_increment /\ t.columns[2].type = "text"
            /\ Cardinality(ColumnListsOf(e)) >= 2
            /\ \E l \in ColumnListsOf(e) :
                  /\ l.names = t.key
                  /\ Len(l.names) = 2
                  /\ l.cols[1].len = None /\ l.cols[2].len # None
            /\ schema[e.t].columns[1].type = "int"
            /\ schema[e.t].columns[2].type = "text"

\* ======================================================================
\* Claims about the Key-Length Limiter, checked under SpecCollist
\* ======================================================================
\* The columns of table named c
ColumnsNamed(table, c) == {i \in 1..Len(table.columns) : table.columns[i].name = c}

\* c names exactly one column of table, and that column is a text column
IsTextColumn(table, c) ==
    /\ Cardinality(ColumnsNamed(table, c)) = 1
    /\ \A i \in ColumnsNamed(table, c) : table.columns[i].type \in {"text", "TEXT"}

\* The explicit key_size of the column c names, None when it has none
KeySizeOf(table, c) ==
    table.columns[CHOOSE i \in ColumnsNamed(table, c) : TRUE].key_size

RECURSIVE PrefixBytes(_, _)
\* The bytes the prefixed entries of a column list take: sum of length * mb
PrefixBytes(entries, mb) ==
    IF entries = <<>> THEN 0
    ELSE (IF Head(entries).len = None THEN 0 ELSE Head(entries).len[1] * mb)
         + PrefixBytes(Tail(entries), mb)

\* Entry i of the call r is a text column without explicit key_size
IsDefaultPrefixed(r, i) ==
    /\ IsTextColumn(r.arg.table, r.arg.columns[i])
    /\ KeySizeOf(r.arg.table, r.arg.columns[i]) = None

\* C4: for max_bytes 3 or 4, the prefix length emitted for a text column
\* without explicit key_size exceeds neither 3072 // (max_bytes * number of
\* index columns) nor 767 // max_bytes.
C4_DefaultPrefixWithinBudget ==
    \A r \in Range(rets) :
        LET n == Len(r.arg.columns) IN
        /\ r.arg.max_bytes \in {3, 4}
        /\ \A i \in 1..n :
              IsDefaultPrefixed(r, i) =>
                 /\ r.val[i].len # None
                 /\ r.val[i].len[1] <= 3072 \div (r.arg.max_bytes * n)
                 /\ r.val[i].len[1] <= 767 \div r.arg.max_bytes

\* C4 witness: a list of five columns has been compiled, one of them a text
\* column without key_size, where the shared budget is below the column cap.
C4_Witness ==
    \E r \in Range(rets) :
        /\ Len(r.arg.columns) = 5
        /\ 3072 \div (r.arg.max_bytes * 5) < 767 \div r.arg.max_bytes
        /\ \E i \in 1..5 : IsDefaultPrefixed(r, i) /\ r.val[i].len # None

\* C5 as stated: the prefixed columns of a compiled column list take at most
\* 3072 bytes in total, whatever the mix of explicit key_size and defaults.
C5_TotalWithinCeiling ==
    \A r \in Range(rets) : PrefixBytes(r.val, r.arg.max_bytes) <= 3072

\* C25: every text column of a compiled column list is emitted with a prefix
\* length N with N * max_bytes <= 767: min(key_size, 767 // max_bytes) with
\* an explicit key_size, the shared limit without one; non-text columns and
\* names that match no column of the table are emitted quoted, with no
\* prefix length.
C25_PrefixPerColumn ==
    \A r \in Range(rets) :
        LET n  == Len(r.arg.columns)
            mb == r.arg.max_bytes
            shared == IF 3072 \div (mb * n) < 767 \div mb
                      THEN 3072 \div (mb * n) ELSE 767 \div mb
        IN  /\ Len(r.val) = n
            /\ \A i \in 1..n :
                  LET c  == r.arg.columns[i]
                      ks == KeySizeOf(r.arg.table, c)
                  IN  /\ r.val[i].name = <<BACKTICK>> \o c \o <<BACKTICK>>
                      /\ IF IsTextColumn(r.arg.table, c)
                         THEN /\ r.val[i].len # None
                              /\ r.val[i].len[1] * mb <= 767
                              /\ r.val[i].len[1] =
                                    (IF ks = None THEN shared
                                     ELSE IF ks[1] < 767 \div mb THEN ks[1]
                                     ELSE 767 \div mb)
                         ELSE r.val[i].len = None

\* C25 witness: a list holding a name that is no column and a text column
\* with key_size 1000 was compiled for max_bytes 3: the former has no prefix
\* length, the latter 255.
C25_Witness ==
    \E r \in Range(rets) :
        /\ r.arg.max_bytes = 3
        /\ Len(r.arg.columns) >= 2
        /\ ColumnsNamed(r.arg.table, r.arg.columns[1]) = {}
        /\ r.val[1].len = None
        /\ \E i \in 2..Len(r.arg.columns) :
              /\ IsTextColumn(r.arg.table, r.arg.columns[i])
              /\ KeySizeOf(r.arg.table, r.arg.columns[i]) = <<1000>>
              /\ r.val[i].len = <<255>>

\* ======================================================================
\* Claims about alter_column_types, checked under SpecAlter
\* ======================================================================
\* The concrete type of an abstract type: int64 -> bigint, text -> mediumtext
Concrete(type) ==
    IF type = "int64" THEN "bigint" ELSE IF type = "text" THEN "mediumtext" ELSE type

\* The columns of the dict whose concrete target differs from the source
Differing(columns) ==
    {n \in DOMAIN columns : Concrete(columns[n][2]) # Concrete(columns[n][1])}

\* C6: alter_column_types yields nothing when no column's mapped types
\* differ, and otherwise exactly one ALTER TABLE with exactly one MODIFY
\* clause for each column whose mapped types differ and none for the others.
C6_AlterOnlyDiffering ==
    \A r \in Range(rets) :
        LET d == Differing(r.arg.columns) IN
        /\ d = {} => r.val = <<>>
        /\ d # {} =>
              /\ Len(r.val) = 1
              /\ r.val[1].kind = "ALTER TABLE"
              /\ r.val[1].table = r.arg.table
              /\ Len(r.val[1].modify) = Cardinality(d)
              /\ {r.val[1].modify[i][1] : i \in 1..Len(r.val[1].modify)} = d
              /\ \A i \in 1..Len(r.val[1].modify) :
                    r.val[1].modify[i][2] =
                       Concrete(r.arg.columns[r.val[1].modify[i][1]][2])

\* C6 witness: a dict with one column going from 'text' to 'mediumtext' and
\* one going from 'int' to 'int64' yielded one statement with one clause.
C6_Witness ==
    \E r \in Range(rets) :
        /\ \E n, m \in DOMAIN r.arg.columns :
              /\ r.arg.columns[n] = <<"text", "mediumtext">>
              /\ r.arg.columns[m] = <<"int", "int64">>
        /\ Len(r.val) = 1
        /\ Len(r.val[1].modify) = 1

\* ======================================================================
\* Claims about quote and the LIKE helpers, checked under SpecText
\* ======================================================================
RECURSIVE HalveBackticks(_)
\* s with every pair of adjacent backticks replaced by one backtick
HalveBackticks(s) ==
    IF s = <<>> THEN <<>>
    ELSE IF Len(s) >= 2 /\ s[1] = BACKTICK /\ s[2] = BACKTICK
         THEN <<BACKTICK>> \o HalveBackticks(SubSeq(s, 3, Len(s)))
         ELSE <<Head(s)>> \o HalveBackticks(Tail(s))

\* The identifier a quoted identifier stands for: the outer backticks
\* stripped and the doubled ones halved
Unquote(q) == HalveBackticks(SubSeq(q, 2, Len(q) - 1))

\* C7: quote wraps the identifier in one leading and one trailing backtick
\* and doubles every embedded backtick, so that stripping the outer ones and
\* halving the doubled ones gives the identifier back; and quoting a quoted
\* identifier changes it.
C7_QuoteRoundTrip ==
    \A r \in Range(rets) :
        r.fn = "quote" =>
           /\ Len(r.val) = Len(r.arg) + Count(r.arg, BACKTICK) + 2
           /\ r.val[1] = BACKTICK /\ r.val[Len(r.val)] = BACKTICK
           /\ Count(r.val, BACKTICK) = 2 * Count(r.arg, BACKTICK) + 2
           /\ Unquote(r.val) = r.arg
           /\ r.val # r.arg

\* C7 witness: an identifier with an embedded backtick has been quoted, and
\* the quoted identifier has been quoted again.
C7_Witness ==
    /\ Len(rets) = 2
    /\ rets[1].fn = "quote" /\ rets[2].fn = "quote"
    /\ Count(rets[1].arg, BACKTICK) > 0
    /\ rets[1].arg = args
    /\ rets[2].arg = rets[1].val
    /\ rets[2].val # rets[1].val

RECURSIVE Unescaped(_, _)
\* The positions of the pattern s, from position i on, that an escape
\* character (the one prefix_match declares) neither holds nor escapes
Unescaped(s, i) ==
    IF i > Len(s) THEN {}
    ELSE IF s[i] = prefix_match.escape THEN Unescaped(s, i + 2)
    ELSE {i} \cup Unescaped(s, i + 1)

RECURSIVE Unescape(_)
\* The text a pattern without wildcards matches: escape characters
\* dropped, the characters they escape kept
Unescape(s) ==
    IF s = <<>> THEN <<>>
    ELSE IF Head(s) = prefix_match.escape /\ Len(s) >= 2
         THEN <<s[2]>> \o Unescape(SubSeq(s, 3, Len(s)))
         ELSE <<Head(s)>> \o Unescape(Tail(s))

\* C8: like_escape prefixes every '/', '_' and '%' with '/', the escape
\* character like() and prefix_match() declare, and leaves the other
\* characters unchanged and in order; prefix_match_value(prefix) has exactly
\* one unescaped '%', its last character.
C8_LikeEscape ==
    /\ like("utf8").escape = "/" /\ prefix_match.escape = "/"
    /\ \A r \in Range(rets) :
          /\ r.fn = "like_escape" =>
                /\ Len(r.val) = Len(r.arg) + Count(r.arg, "/")
                                 + Count(r.arg, "_") + Count(r.arg, "%")
                /\ Unescape(r.val) = r.arg
                /\ \A i \in Unescaped(r.val, 1) : r.val[i] \notin {"/", "_", "%"}
          /\ r.fn = "prefix_match_value" =>
                /\ r.val[Len(r.val)] = "%"
                /\ {i \in Unescaped(r.val, 1) : r.val[i] = "%"} = {Len(r.val)}
                /\ Unescape(SubSeq(r.val, 1, Len(r.val) - 1)) = r.arg

\* C8 witness: prefix_match_value has been called on a prefix that ends
\* with the escape character and holds a '%'.
C8_Witness ==
    \E r \in Range(rets) :
        /\ r.fn = "prefix_match_value"
        /\ Len(r.arg) >= 2
        /\ r.arg[Len(r.arg)] = "/"
        /\ Count(r.arg, "%") > 0

\* ======================================================================
\* Claims about close() and rollback(), checked under SpecConn
\* ======================================================================
\* C9: close() never raises and leaves the connection marked closed; the
\* second and later close() calls make no driver call, so the driver's close
\* is called at most once; a driver close that reports 'already closed' on
\* a session the server has invalidated is swallowed.
C9_CloseIdempotent ==
    /\ lastOp = "close" => raised = "none" /\ is_closed
    /\ lastOp = "close" /\ nClose >= 2 => opCalls = <<>>
    /\ Len(driverCloses) <= 1
    /\ nClose >= 1 => is_closed

\* C9 witness: the first close() was made on an invalidated session and the
\* driver reported 'already closed'; a second close() has returned since.
C9_Witness ==
    /\ lastOp = "close"
    /\ nClose = 2
    /\ opCalls = <<>>
    /\ driverCloses = <<"ProgrammingError">>
    /\ raised = "none"
    /\ is_closed

\* C10 as stated: rollback() pings first and then rolls back, and on a
\* connection whose session has been invalidated it does not raise and
\* marks the connection closed.
C10_RollbackOnInvalidatedSession ==
    lastOp = "rollback" =>
       /\ opCalls[1].call = "ping"
       /\ opSession = "invalid" => raised = "none" /\ is_closed

\* C10 amended: rollback() pings first and calls the driver's rollback only
\* after the ping has returned; an error of the ping escapes rollback(), the
\* connection's closed mark unchanged; when the driver's rollback reports the
\* session invalid (ProgrammingError), rollback() does not raise and the
\* connection is marked closed.
C10_RollbackMarksClosed ==
    lastOp = "rollback" =>
       /\ Len(opCalls) \in {1, 2}
       /\ opCalls[1].call = "ping"
       /\ Len(opCalls) = 1 <=> opCalls[1].result = "OperationalError"
       /\ Len(opCalls) = 1 => raised = "OperationalError"
       /\ Len(opCalls) = 2 =>
             /\ opCalls[2].call = "rollback"
             /\ raised = "none"
             /\ opCalls[2].result = "ProgrammingError" => is_closed

\* C10 witness: rollback() was called on an invalidated session, the ping
\* returned, the driver's rollback reported ProgrammingError, and rollback()
\* returned with the connection marked closed.
C10_Witness ==
    /\ lastOp = "rollback"
    /\ opSession = "invalid"
    /\ opCalls = <<[call |-> "ping", result |-> "ok"],
                   [call |-> "rollback", result |-> "ProgrammingError"]>>
    /\ raised = "none"
    /\ is_closed
    /\ nClose = 0

\* C11: CLOSED is terminal.  Once the connection is marked closed, by close()
\* or by a rollback() whose driver rollback failed, no later close() or
\* rollback() clears the mark, and none makes the driver session live again.
\* rollback() does not test _is_closed: it pings the driver on a connection
\* already marked closed, and the ping may open a new session.
C11_ClosedIsTerminal ==
    /\ nClose >= 1 => is_closed
    /\ is_closed => session # "live"

\* ======================================================================
\* Claims about the connector, checked under SpecCtor
\* ======================================================================
\* The charset a parameter mapping asks for: its charset parameter, in lower
\* case, when that is utf8 or utf8mb4, else the default
RequestedCharset(params) ==
    IF \E i \in 1..Len(params) :
          /\ params[i][1] = "charset"
          /\ params[i][2] \in {"utf8", "UTF8", "utf8mb4", "UTF8MB4"}
    THEN LET i == CHOOSE i \in 1..Len(params) : params[i][1] = "charset"
         IN  IF params[i][2] \in {"utf8", "UTF8"} THEN "utf8" ELSE "utf8mb4"
    ELSE "utf8"

\* The charset the server reports, 'utf8mb3' taken as 'utf8'
ReportedCharset ==
    LET cs == server.variables["character_set_database"]
    IN  IF cs = "utf8mb3" THEN "utf8" ELSE cs

\* The kinds of the driver calls of the last operation, in order
DriverCalls == [i \in 1..Len(events) |-> events[i].ev]

\* The sessions the last operation opened and left open
LeftOpen ==
    {i \in 1..Len(events) :
        /\ events[i].ev = "connect"
        /\ events[i].result = "ok"
        /\ sessions[events[i].cnx].open}

\* C12: a construction that completes connected first with the requested
\* charset (utf8 unless the parameters name one), reconnected if and only
\* if the server's database charset (utf8mb3 read as utf8) differs from it,
\* closing the first session before opening the second, and ends with
\* exactly one session open, opened with the connection's charset, which is
\* the charset the server reported.
C12_CharsetNegotiation ==
    (opResult.op = "get_connection" /\ opResult.raised = "none") =>
       /\ Len(conn) = 1
       /\ events[1].ev = "connect"
       /\ events[1].opts["charset"] = RequestedCharset(db_prop.params)
       /\ IF ReportedCharset # RequestedCharset(db_prop.params)
          THEN /\ DriverCalls = <<"connect", "close", "connect">>
               /\ events[2].cnx = events[1].cnx
               /\ events[3].cnx # events[1].cnx
          ELSE DriverCalls = <<"connect">>
       /\ Cardinality(LeftOpen) = 1
       /\ \A i \in LeftOpen :
             /\ events[i].cnx = conn[1].cnx
             /\ events[i].opts["charset"] = conn[1].charset
             /\ sessions[events[i].cnx].charset = conn[1].charset
       /\ conn[1].charset = ReportedCharset

\* C12 witness: the URI asks for utf8mb4 (in upper case), the server's
\* database charset is utf8mb3, and the construction completed on a second
\* session opened with utf8 after the first was closed.
C12_Witness ==
    /\ opResult.op = "get_connection"
    /\ opResult.raised = "none"
    /\ db_prop.params = <<<<"charset", "UTF8MB4">>>>
    /\ server.variables["character_set_database"] = "utf8mb3"
    /\ DriverCalls = <<"connect", "close", "connect">>
    /\ events[1].opts["charset"] = "utf8mb4"
    /\ conn[1].charset = "utf8"
    /\ ~sessions[events[1].cnx].open

\* The parameters get_connection does not recognize: an unknown name, or a
\* charset other than utf8 and utf8mb4
Unrecognized(params) ==
    {i \in 1..Len(params) :
        \/ params[i][1] \notin {"read_default_group", "init_command",
                                "read_default_file", "unix_socket",
                                "compress", "named_pipe", "charset"}
        \/ /\ params[i][1] = "charset"
           /\ params[i][2] \notin {"utf8", "UTF8", "utf8mb4", "UTF8MB4"}}

\* C13: an unrecognized parameter never makes get_connection fail: unless
\* the driver itself refuses to connect, a connection is returned, a warning
\* was logged for the parameter and it was not passed to the driver.
\* The warning is logged through self.log, which __init__ sets only after
\* the loop over the parameters.
C13_UnrecognizedParameterIgnored ==
    (opResult.op = "get_connection" /\ Unrecognized(db_prop.params) # {}) =>
       /\ opResult.raised \in {"none", "OperationalError"}
       /\ \A i \in Unrecognized(db_prop.params) :
             \E e \in 1..Len(events) :
                /\ events[e].ev = "log.warning"
                /\ events[e].args[1] = db_prop.params[i][1]
       /\ \A e \in 1..Len(events) :
             events[e].ev = "connect" =>
                \A i \in Unrecognized(db_prop.params) :
                   \/ db_prop.params[i][1] \notin DOMAIN events[e].opts
                   \/ events[e].opts[db_prop.params[i][1]]
                         # db_prop.params[i][2]

\* ======================================================================
\* Claims about init_db, destroy_db and db_exists, checked under SpecSetup
\* ======================================================================
\* What the last operation did on its connection, once it had one
Steps ==
    SelectSeq(events,
              LAMBDA e : e.ev \notin {"connect", "close", "log.warning"})

\* The positions of the steps of a kind
StepsOf(kind) == {i \in 1..Len(Steps) : Steps[i].ev = kind}

\* The statements the last operation had the server execute, in order
ExecutedStatements ==
    LET ex == SelectSeq(Steps, LAMBDA e : e.ev = "execute")
    IN  [i \in 1..Len(ex) |-> ex[i].stmt]

\* C14: init_db verifies the server variables before its first DDL
\* statement, executes every statement of every table in schema order,
\* verifies the table status after the last statement and commits last; if
\* a verification or a statement raises there is no commit, and if the
\* verification of the server variables raises no DDL is executed.
C14_InitDbOrder ==
    opResult.op = "init_db" =>
       /\ Steps # <<>> =>
             /\ StepsOf("verify_variables") = {1}
             /\ Steps[1].raised # "none" => Len(Steps) = 1
       /\ \A i \in StepsOf("execute") : \A j \in StepsOf("verify_table_status") :
             i < j
       /\ \A i \in StepsOf("commit") : i = Len(Steps)
       /\ opResult.raised # "none" => StepsOf("commit") = {}
       /\ \A i \in 1..Len(Steps) :
             \/ /\ Steps[i].ev \in {"verify_variables", "verify_table_status"}
                /\ Steps[i].raised # "none"
             \/ /\ Steps[i].ev = "execute"
                /\ Steps[i].result # "ok"
             => /\ i = Len(Steps)
                /\ opResult.raised # "none"
       /\ opResult.raised = "none" =>
             /\ ExecutedStatements =
                   Statements(SchemaOf(opResult.arg),
                              _max_bytes(conn[1].charset))
             /\ \A i \in StepsOf("execute") : Steps[i].result = "ok"
             /\ StepsOf("verify_table_status") = {Len(Steps) - 1}
             /\ StepsOf("commit") = {Len(Steps)}

\* C14 witness: init_db with the default schema ran to its commit, having
\* executed the three statements of the two tables.
C14_Witness ==
    /\ opResult.op = "init_db"
    /\ opResult.arg = None
    /\ opResult.raised = "none"
    /\ Len(ExecutedStatements) = 3
    /\ ExecutedStatements[2].kind = "CREATE INDEX"
    /\ Steps[Len(Steps)].ev = "commit"

\* What db_exists, destroy_db and init_db promise of the database they
\* leave: db_exists answers whether get_table_names() is non-empty
ExistenceAfter ==
    /\ (opResult.op = "db_exists" /\ opResult.raised = "none") =>
          (opResult.value <=> get_table_names(server) # {})
    /\ (opResult.op = "destroy_db" /\ opResult.raised = "none") =>
          /\ \A i \in StepsOf("get_table_names") :
                Steps[i].names =
                   {Steps[j].table : j \in StepsOf("drop_table")}
          /\ \A j \in StepsOf("drop_table") : Steps[j].result = "ok"
          /\ StepsOf("commit") = {Len(Steps)}
          /\ get_table_names(server) = {}
    /\ (/\ opResult.op = "init_db"
        /\ opResult.raised = "none"
        /\ SchemaOf(opResult.arg) # <<>>) =>
          get_table_names(server) # {}

\* C15 as claimed: db_exists is true exactly when the introspection reports
\* a table; destroy_db drops every table reported and commits, after which
\* db_exists is false; after a successful init_db with a non-empty schema
\* db_exists is true and get_table_names() returns exactly the names of the
\* schema's tables.
C15_ExactlyTheSchema ==
    /\ ExistenceAfter
    /\ (/\ opResult.op = "init_db"
        /\ opResult.raised = "none"
        /\ SchemaOf(opResult.arg) # <<>>) =>
          get_table_names(server) = TableNamesOf(SchemaOf(opResult.arg))

\* C15, amended: as claimed, except that after a successful init_db
\* get_table_names() returns the names of the schema's tables together with
\* the names of the tables the database held before.
C15_SchemaAddedToDatabase ==
    /\ []ExistenceAfter
    /\ [][(/\ nOps' = nOps + 1
           /\ opResult'.op = "init_db"
           /\ opResult'.raised = "none") =>
             get_table_names(server') =
                get_table_names(server)
                   \cup TableNamesOf(SchemaOf(opResult'.arg))]_vars

\* C15 witness: init_db with a schema of two tables succeeded on a database
\* that held another application's table; the database now holds all three.
C15_Witness ==
    /\ opResult.op = "init_db"
    /\ opResult.raised = "none"
    /\ TableNamesOf(SchemaOf(opResult.arg)) = {<<"c">>, <<"t">>}
    /\ get_table_names(server) = {<<"c">>, <<"t">>, <<"o">>}
    /\ nOps = 1

\* A table on a non-transactional engine, or whose collation is neither
\* utf8_bin nor utf8mb4_bin
Unsuitable(status) ==
    \/ status.Engine \in {"MyISAM", "EXAMPLE", "ARCHIVE", "CSV", "ISAM"}
    \/ status.Collation \notin {<<"utf8_bin">>, <<"utf8mb4_bin">>}

\* C17: the verification of the tables that init_db runs after creating
\* them fails if a table it has just created, from the default schema or
\* from the schema passed to it, is on a non-transactional engine or has a
\* collation other than utf8_bin and utf8mb4_bin.
\* _verify_table_status looks only at the tables named in
\* trac.db_default.schema, whatever schema init_db was given.
C17_CreatedTablesVerified ==
    opResult.op = "init_db" =>
       \A i \in StepsOf("verify_table_status") :
          (\E n \in TableNamesOf(SchemaOf(opResult.arg)) :
              Unsuitable(server.tables[n]))
          => Steps[i].raised # "none"

\* ======================================================================
\* Claims about the verification of the server, checked under SpecUpgrade
\* ======================================================================
\* The value SHOW VARIABLES reports for a name, "" if it reports none
Reported(name) ==
    IF name \in DOMAIN server.variables THEN server.variables[name] ELSE ""

NonTransactional == {"MyISAM", "EXAMPLE", "ARCHIVE", "CSV", "ISAM"}

\* The server's variables break a rule of _verify_variables
VariablesViolated ==
    \/ (IF Reported("default_storage_engine") # ""
        THEN Reported("default_storage_engine")
        ELSE Reported("storage_engine")) \in NonTransactional
    \/ Reported("default_tmp_storage_engine") \in NonTransactional
    \/ ~ \/ /\ Reported("character_set_database") = "utf8mb4"
            /\ Reported("collation_database") = "utf8mb4_bin"
         \/ /\ Reported("character_set_database") \in {"utf8mb3", "utf8"}
            /\ Reported("collation_database") = "utf8_bin"

\* C16: _verify_variables raises if and only if the server's default storage
\* engine (default_storage_engine, else storage_engine) is non-transactional,
\* or its default engine for temporary tables is, or the database's charset
\* and collation are not one of (utf8mb4, utf8mb4_bin), (utf8mb3, utf8_bin),
\* (utf8, utf8_bin); it leaves the server as it found it.
C16_VerifyVariables ==
    /\ [](\A i \in StepsOf("verify_variables") :
             Steps[i].raised # "none" <=> VariablesViolated)
    /\ [][StepsOf("verify_variables")' # {} => server' = server]_vars

\* C16 witness: a server that reports its engine only as storage_engine, as
\* MyISAM, with an allowed charset and collation: _verify_variables raised.
C16_Witness ==
    /\ StepsOf("verify_variables") # {}
    /\ "default_storage_engine" \notin DOMAIN server.variables
    /\ server.variables["storage_engine"] = "MyISAM"
    /\ "default_tmp_storage_engine" \notin DOMAIN server.variables
    /\ server.variables["character_set_database"] = "utf8mb3"
    /\ server.variables["collation_database"] = "utf8_bin"
    /\ opResult.raised = "TracError"

\* A table of the application fails the rules of _verify_table_status
TablesViolated ==
    \E n \in {<<"t">>, <<"u">>} \cap DOMAIN server.tables :
       \/ server.tables[n].Engine \in NonTransactional
       \/ server.tables[n].Collation
             \notin {<<"utf8_bin">>, <<"utf8mb4_bin">>, <<>>}

\* What a call of environment_needs_upgrade that verifies does: the tables,
\* then the variables, raising at the first violation, else returning False
UpgradeVerified ==
    /\ Steps # <<>>
    /\ Steps[1].ev = "verify_table_status"
    /\ IF TablesViolated
       THEN /\ Len(Steps) = 1
            /\ opResult.raised = "TracError"
       ELSE /\ Len(Steps) = 2
            /\ Steps[2].ev = "verify_variables"
            /\ opResult.raised # "none" <=> VariablesViolated
    /\ opResult.raised = "none" => opResult.value = FALSE

\* C18 as claimed: every call of environment_needs_upgrade verifies the
\* table status and the server variables, raising if either is violated,
\* and otherwise returns False.
C18_EveryCallVerifies ==
    opResult.op = "environment_needs_upgrade" => UpgradeVerified

\* C18, amended: every call of environment_needs_upgrade made once the
\* connector has handed out a connection (required is set) verifies the
\* table status and then the server variables, raising at the first
\* violation, and otherwise returns False; a call made before that verifies
\* nothing and returns False.  No call modifies the database.
C18_VerifiesOnceRequired ==
    /\ [](opResult.op = "environment_needs_upgrade" =>
             IF required
             THEN UpgradeVerified
             ELSE /\ Steps = <<>>
                  /\ opResult.raised = "none"
                  /\ opResult.value = FALSE)
    /\ [][opResult'.op = "environment_needs_upgrade" => server' = server]_vars

\* C18 witness: after get_connection, environment_needs_upgrade verified the
\* tables and the variables of a sound server and returned False.
C18_Witness ==
    /\ opResult.op = "environment_needs_upgrade"
    /\ required
    /\ Len(Steps) = 2
    /\ opResult.raised = "none"
    /\ opResult.value = FALSE
    /\ <<"t">> \in DOMAIN server.tables

\* ======================================================================
\* Claims about backup, checked under SpecBackup
\* ======================================================================
\* The child process the last backup launched
Child == events[Len(events)]

\* The value of a parameter of the connection URI, if it has it
ParamValue(name) ==
    LET at == {i \in 1..Len(db_prop.params) : db_prop.params[i][1] = name}
    IN  IF at = {} THEN None
        ELSE <<db_prop.params[CHOOSE i \in at : TRUE][2]>>

\* C19: when the parameters contain read_default_file, its defaults-file
\* flag is the first flag of the argument list, right after the program
\* path, whatever the order of the parameters and whichever others there
\* are.
C19_DefaultsFileFirst ==
    (opResult.op = "backup" /\ ParamValue("read_default_file") # None) =>
       /\ Child.args[1] = <<"mysqldump">>
       /\ Child.args[2] =
             <<"--defaults-file=", ParamValue("read_default_file")[1]>>
       /\ \A i \in 3..Len(Child.args) :
             Child.args[i][1] # "--defaults-file="

\* C19 witness: read_default_file is the second parameter, after
\* unix_socket, and host, port and user are given; its flag is still the
\* second element of the argument list.
C19_Witness ==
    /\ opResult.op = "backup"
    /\ db_prop.params = <<<<"unix_socket", "s">>, <<"read_default_file", "f">>>>
    /\ db_prop.host # None /\ db_prop.port # None /\ db_prop.user # None
    /\ Child.args[2] = <<"--defaults-file=", "f">>
    /\ Len(Child.args) = 14

\* C20: the password never reaches the argument list: any configuration
\* that differs only in the password gives the same argument list; the
\* child's environment is the parent's with MYSQL_PWD set to the password
\* if and only if one is configured; the parent's environment is left as
\* it was.
C20_PasswordOnlyInEnvironment ==
    /\ [](opResult.op = "backup" =>
            /\ \A pw \in Passwords :
                  BackupArgs([db_prop EXCEPT !.password = pw], "d")
                     = Child.args
            /\ \A i \in 1..Len(Child.args) : \A j \in 1..Len(Child.args[i]) :
                  <<Child.args[i][j]>> \notin Passwords
            /\ IF db_prop.password # None
               THEN /\ Child.env["MYSQL_PWD"] = db_prop.password[1]
                    /\ \A k \in DOMAIN Child.env \ {"MYSQL_PWD"} :
                          k \in DOMAIN environ /\ Child.env[k] = environ[k]
                    /\ DOMAIN environ \subseteq DOMAIN Child.env
               ELSE Child.env = environ)
    /\ [][opResult'.op = "backup" => environ' = environ]_vars

\* C20 witness: a backup with the password pw configured, in a process
\* whose environment has no MYSQL_PWD: the child's environment has it.
C20_Witness ==
    /\ opResult.op = "backup"
    /\ db_prop.password = <<"pw">>
    /\ "MYSQL_PWD" \notin DOMAIN environ
    /\ Child.env["MYSQL_PWD"] = "pw"
    /\ db_prop.user # None

\* C21: backup returns the destination path only when the utility was
\* launched, exited with status 0 and the destination file exists; it fails
\* if the utility cannot be launched, else if it exits non-zero (the error
\* carrying its stderr text, stripped), else if the destination file does
\* not exist.
C21_BackupChecks ==
    opResult.op = "backup" =>
       LET o == Child.outcome
       IN  /\ opResult.raised = "none" <=>
                (o.launched /\ o.returncode = 0 /\ o.exists)
           /\ opResult.raised = "none" => opResult.value = "d"
           /\ ~o.launched => opResult.raised = "TracError: Unable to run"
           /\ (o.launched /\ o.returncode # 0) =>
                 /\ opResult.raised = "TracError: mysqldump failed"
                 /\ opResult.msg =
                       (IF o.stderr = <<>> THEN <<>> ELSE <<"e">>)
           /\ (o.launched /\ o.returncode = 0 /\ ~o.exists) =>
                 opResult.raised = "TracError: No destination file created"

\* C21 witness: the utility wrote ' e ' to stderr, exited with status 1 and
\* left no destination file: backup failed on the exit status, with 'e'.
C21_Witness ==
    /\ opResult.op = "backup"
    /\ Child.outcome.launched
    /\ Child.outcome.returncode = 1
    /\ ~Child.outcome.exists
    /\ Child.outcome.stderr = <<" ", "e", " ">>
    /\ opResult.raised = "TracError: mysqldump failed"
    /\ opResult.msg = <<"e">>

\* The ALTER statements among the events of the last operation
AlterStatements(evs) ==
    SelectSeq(evs, LAMBDA e : Head(e.stmt) = "ALTER TABLE ")

\* C22: drop_column(table, column) on an existing column issues, for each
\* composite index containing the column, exactly one drop (DROP PRIMARY KEY
\* for the primary key, DROP KEY otherwise), then the single DROP COLUMN
\* statement, which is last; no other index is dropped; when the column does
\* not exist in the table no ALTER statement is issued.
C22_DropColumn ==
    [][opResult'.op = "drop_column" /\ nOps' = nOps + 1 =>
         LET table  == opResult'.table
             column == opResult'.column
             at == {i \in 1..Len(server.tables) :
                      /\ conn[1].schema # <<>>
                      /\ server.tables[i].name = table
                      /\ \E c \in 1..Len(server.tables[i].columns) :
                            server.tables[i].columns[c] = column}
             alters == AlterStatements(events')
             DropOf(K) ==
                 <<"ALTER TABLE ">> \o quote(table) \o
                 (IF K = PRIMARY THEN <<" DROP PRIMARY KEY">>
                  ELSE <<" DROP KEY ">> \o quote(K))
             DropColumnStmt ==
                 <<"ALTER TABLE ">> \o quote(table) \o <<" DROP COLUMN ">>
                    \o quote(column) \o <<" ">>
         IN  IF at = {} THEN alters = <<>>
             ELSE LET index == server.tables[CHOOSE i \in at : TRUE].index
                      Rows(K) == {r \in 1..Len(index) : index[r].Key_name = K}
                      composite ==
                          {index[r].Key_name : r \in
                             {r \in 1..Len(index) :
                                /\ index[r].Column_name = column
                                /\ Cardinality(Rows(index[r].Key_name)) > 1}}
                      others ==
                          {index[r].Key_name : r \in 1..Len(index)}
                             \ composite
                  IN  /\ events'[Len(events')].stmt = DropColumnStmt
                      /\ Len(alters) = Cardinality(composite) + 1
                      /\ \A K \in composite :
                            Cardinality({i \in 1..Len(alters) - 1 :
                                           alters[i].stmt = DropOf(K)}) = 1
                      /\ \A K \in others :
                            \A i \in 1..Len(alters) :
                               alters[i].stmt # DropOf(K)
                      /\ \A i \in 1..Len(alters) - 1 :
                            alters[i].stmt # DropColumnStmt]_vars

\* C22 witness: drop_column('a', 'y') dropped the composite primary key and
\* the composite index k, left the simple index j, and dropped the column.
C22_Witness ==
    /\ opResult.op = "drop_column"
    /\ opResult.column = <<"y">>
    /\ Len(AlterStatements(events)) = 3
    /\ \E i \in 1..Len(events) :
          events[i].stmt = <<"ALTER TABLE ", BACKTICK, "a", BACKTICK,
                             " DROP PRIMARY KEY">>
    /\ \E i \in 1..Len(events) :
          events[i].stmt = <<"ALTER TABLE ", BACKTICK, "a", BACKTICK,
                             " DROP KEY ", BACKTICK, "k", BACKTICK>>
    /\ \E i \in 1..Len(server.tables) :
          /\ server.tables[i].columns = <<<<"x">>, <<"z">>>>
          /\ server.tables[i].index = <<>>

\* C23: reset_tables() issues exactly one row-emptying statement per table
\* of the bound schema, TRUNCATE TABLE exactly for the tables with an
\* auto-increment column and DELETE FROM exactly for the others; it returns
\* the names of all tables in the order reported by introspection, and
\* returns an empty list without issuing any statement when the connection
\* has no bound schema name.
C23_ResetTables ==
    opResult.op = "reset_tables" =>
       IF conn[1].schema = <<>>
       THEN opResult.value = <<>> /\ events = <<>>
       ELSE LET emptying == SelectSeq(events, LAMBDA e :
                               Head(e.stmt) \in {"TRUNCATE TABLE ",
                                                 "DELETE FROM "})
                On(i) == {j \in 1..Len(emptying) :
                            Tail(emptying[j].stmt)
                               = <<BACKTICK>> \o server.tables[i].name
                                     \o <<BACKTICK>>}
            IN  /\ opResult.value = [i \in 1..Len(server.tables) |->
                                       server.tables[i].name]
                /\ Len(emptying) = Len(server.tables)
                /\ Len(events) = Len(emptying) + 1
                /\ \A i \in 1..Len(server.tables) :
                      /\ Cardinality(On(i)) = 1
                      /\ \A j \in On(i) :
                            Head(emptying[j].stmt) =
                               (IF server.tables[i].autoinc # None
                                THEN "TRUNCATE TABLE " ELSE "DELETE FROM ")
                      /\ server.tables[i].rows = 0

\* C23 witness: reset_tables() on tables b (no auto-increment column) and a
\* (auto-increment column z) issued DELETE FROM b, then TRUNCATE TABLE a, and
\* returned both names.
C23_Witness ==
    /\ opResult.op = "reset_tables"
    /\ opResult.value = <<<<"b">>, <<"a">>>>
    /\ Len(events) = 3
    /\ events[2].stmt = <<"DELETE FROM ", BACKTICK, "b", BACKTICK>>
    /\ events[3].stmt = <<"TRUNCATE TABLE ", BACKTICK, "a", BACKTICK>>
    /\ server.tables[2].autoinc = <<<<"z">>>>

\* C24: every connection that init_db, destroy_db or db_exists opens for its
\* own use is closed by the time the operation returns or raises.
C24_OwnConnectionsClosed ==
    opResult.op \in {"init_db", "destroy_db", "db_exists"} => LeftOpen = {}

\* C27: backup logs an 'Invalid connection string parameter' warning for a
\* parameter only if opening a connection with the same parameter name and
\* value would also log such a warning.
C27_WarnsOnlyWhereConnectionWarns ==
    opResult.op = "backup" =>
       \A i \in 1..Len(events) :
          events[i].ev = "log.warning" =>
             \E j \in 1..Len(db_prop.params) :
                /\ db_prop.params[j][1] = events[i].args[1]
                /\ CtorWarns(db_prop.params[j][1], db_prop.params[j][2])

\* ======================================================================
\* Claims about the enum admin panel and the enum 'order' command, checked
\* under SpecEnum
\* ======================================================================
\* C28: an 'apply' request whose submitted order numbers are not pairwise
\* distinct fails with 'Order numbers must be unique' and changes nothing: no
\* enum value is updated and the configured default is left as it was.
C28_DuplicateNumbersChangeNothing ==
    [][(/\ opResult'.op = "apply"
        /\ nOps' = nOps + 1
        /\ \E n, m \in DOMAIN opResult'.numbers :
              n # m /\ opResult'.numbers[n] = opResult'.numbers[m])
       => /\ opResult'.raised = "TracError: Order numbers must be unique"
          /\ server'.enum = server.enum
          /\ config'.value = config.value]_vars

\* The ordering numbers of the enums
Numbers(enum) == {int_float(enum[n]) : n \in DOMAIN enum}

\* C29: 'order <value> up|down' swaps the numbers of the named enum and of
\* the enum whose number is one less (up) or one more (down), updating both
\* inside one transaction; without such a neighbour nothing is updated; a
\* direction other than up/down raises AdminCommandError without any update.
\* So the set of ordering numbers is unchanged by the command and the
\* numbers stay pairwise distinct.
C29_OrderSwapsNeighbours ==
    /\ [](Cardinality(Numbers(server.enum)) = Cardinality(DOMAIN server.enum))
    /\ [][opResult'.op = "order" /\ nOps' = nOps + 1 =>
            LET name == opResult'.name
                up_down == opResult'.up_down
                number == int_float(server.enum[name])
                target == IF up_down = "up" THEN number - 1 ELSE number + 1
                neighbours == {n \in DOMAIN server.enum :
                                 int_float(server.enum[n]) = target}
                updates == SelectSeq(events', LAMBDA e : e.ev = "update")
            IN  /\ Numbers(server'.enum) = Numbers(server.enum)
                /\ DOMAIN server'.enum = DOMAIN server.enum
                /\ IF up_down \notin {"up", "down"}
                   THEN /\ opResult'.raised = "AdminCommandError"
                        /\ server' = server /\ events' = <<>>
                   ELSE /\ opResult'.raised = "none"
                        /\ IF neighbours = {}
                           THEN server' = server /\ events' = <<>>
                           ELSE \E n \in neighbours :
                                   /\ server'.enum[name] = server.enum[n]
                                   /\ server'.enum[n] = server.enum[name]
                                   /\ \A o \in DOMAIN server.enum \ {name, n} :
                                         server'.enum[o] = server.enum[o]
                                   /\ Len(events') = 4
                                   /\ events'[1].ev = "begin"
                                   /\ {events'[2].name, events'[3].name}
                                         = {name, n}
                                   /\ Len(updates) = 2
                                   /\ events'[4].ev = "commit"]_vars

\* C29 witness: 'order b up' moved b, numbered 3, above a, numbered 2, in
\* one transaction of two updates.
C29_Witness ==
    /\ opResult.op = "order"
    /\ opResult.name = "b" /\ opResult.up_down = "up"
    /\ server.enum = [a |-> "3", b |-> "2"]
    /\ Len(events) = 4
    /\ events[2] = [ev |-> "update", name |-> "b", value |-> "2"]
    /\ events[3] = [ev |-> "update", name |-> "a", value |-> "3"]

\* ======================================================================
\* Claims about the version-46 migration, checked under SpecDb46
\* ======================================================================
\* C30: do_upgrade executes its four statements one at a time in the listed
\* order, so that afterwards every milestone row that existed before exists
\* with the same name, due, completed and description and with started = 0,
\* and no other row is added.
C30_MilestonesMigrated ==
    [][opResult'.op = "do_upgrade" /\ nOps' = nOps + 1 =>
          /\ Len(events') = 4
          /\ \A i \in 1..Len(events') :
                /\ events'[i].ev = "execute"
                /\ events'[i].query = sql.value[i]
          /\ "milestone" \in DOMAIN server'.tables
          /\ server'.tables["milestone"] =
                {[name |-> r.name, due |-> r.due, started |-> 0,
                  completed |-> r.completed,
                  description |-> r.description] :
                    r \in server.tables["milestone"]}]_vars

====
